---- MODULE Spec2Model ----
(***************************************************************************)
(* The heap instrumentation core of src/src/heapInst.c: a fixed-capacity   *)
(* record buffer that is appended to by heap_inst_record_malloc/free/      *)
(* realloc, drained to the stream port by flush_buffer_to_transport, and   *)
(* rendered as text through heap_inst_logf when the stream port fails.     *)
(*                                                                         *)
(* Every function of heapInst.c is an operator from tracer state to tracer *)
(* state (the record "s" below), so that a function that calls another is  *)
(* the composition of the two operators.  The actions at the end apply one *)
(* public function each to the current state.                              *)
(***************************************************************************)
EXTENDS Integers, Sequences, FiniteSets, TLC

VARIABLES
    heap_buffer,              \* static heap_inst_record_t heap_buffer[...]
    buffer_index,             \* static size_t buffer_index
    tracker_initialized,      \* static bool tracker_initialized
    streamport_available,     \* static bool streamport_available
    g_platform_hooks,         \* static heap_inst_platform_hooks_t g_platform_hooks
    HEAPINST_CFG_DEBUG_LOG,   \* the compile-time debug-log switch of the build
    clock,                    \* next value the registered timestamp hook returns
    writes,                   \* every heapInstStreamPort_Write call: data and return
    log_out,                  \* every message heap_inst_logf delivered, with its sink
    created,                  \* history: every record built, in call order
    flushed,                  \* history: every drain of the buffer (count reset by a flush)
    calls,                    \* hook/port calls and buffer mutations of the last operation
    invoked,                  \* callback and context of each hook call of the last operation
    last_op,                  \* the public function called last
    oob,                      \* a record was stored past the end of heap_buffer
    thr,                      \* per thread: where it is in the function it runs, and its locals
    mutex,                    \* the thread inside the registered lock hook's critical section
    heap_owner,               \* the real allocator: which thread holds each address
    released,                 \* history: how often __real_free has released each address
    handed_out,               \* history: the records of addresses the allocator returned
    ops_begun,                \* number of calls the threads have made
    registered,               \* history: the hook set passed to the last registration
    wrapped,                  \* the last call: arguments, real allocator calls, value returned
    semihosting,              \* semihosting.c and the semihosting stream port: their statics,
                              \* the debugger, and the history of the requests made
    fileport,                 \* the filesystem stream port: g_trace_file, and the history of
                              \* its fopen calls and of the last call
    heap_tracker              \* heap_tracker.c: its statics, the clock, the console, and the
                              \* history of the drains of its buffer

\* the variables of heapInst.c and its callers
heapInst_vars ==
    <<heap_buffer, buffer_index, tracker_initialized, streamport_available,
      g_platform_hooks, HEAPINST_CFG_DEBUG_LOG, clock, writes, log_out,
      created, flushed, calls, invoked, last_op, oob, thr, mutex, heap_owner,
      released, handed_out, ops_begun, registered, wrapped>>

\* the variables of the other programs of the repository
OtherPrograms == <<semihosting, fileport, heap_tracker>>

vars == <<heapInst_vars, OtherPrograms>>

----------------------------------------------------------------------------
(* Bounds of the model *)

\* capacity of heap_buffer in records (HEAP_INST_BUFFER_SIZE / sizeof record)
BufferRecords == 2


(* Program constants *)

\* the members of heap_inst_record_t in declaration order, by their size in
\* bytes: uint8_t, uint8_t, uint16_t, uint64_t, uint32_t, uint32_t, uint32_t
RecordMembers == <<1, 1, 2, 8, 4, 4, 4>>

\* sizeof a struct that is not packed: every member lies at the next
\* multiple of its size and the whole is a multiple of its widest member
sizeof_struct(members) ==
    LET align(n, a) == ((n + a - 1) \div a) * a
        end[k \in 0..Len(members)] ==
            IF k = 0 THEN 0 ELSE align(end[k - 1], members[k]) + members[k]
        widest == CHOOSE m \in {members[i] : i \in 1..Len(members)} :
                      \A i \in 1..Len(members) : members[i] <= m
    IN align(end[Len(members)], widest)

sizeof_heap_inst_record_t == sizeof_struct(RecordMembers)

\* the default byte budget of the buffer
HEAPINST_CFG_BUFFER_SIZE == 4096

HEAP_OP_INIT == 0
HEAP_OP_MALLOC == 1
HEAP_OP_FREE == 2
HEAP_OP_REALLOC == 3

HEAP_INIT_FLAG_HEAP_INFO_VALID == 1

HEAP_AUTO_DETECT_AVAILABLE == 0

\* first value of the test clock (RecordingClock::current)
ClockStart == 100

HEAP_INST_BUFFER_SIZE == BufferRecords * sizeof_heap_inst_record_t

\* sizeof(heap_buffer) / sizeof(heap_buffer[0])
heap_inst_get_buffer_capacity == HEAP_INST_BUFFER_SIZE \div sizeof_heap_inst_record_t

\* number of heap_inst_record_* calls explored: enough to fill the buffer
\* after the Init record and overflow it once
MaxRecords == heap_inst_get_buffer_capacity

\* A size_t or pointer value is wider than the 32-bit record fields on a
\* 64-bit host: it is the pair of its upper bits and its low 32 bits.
Word(hi, lo) == [hi |-> hi, lo |-> lo]

\* the cast (uint32_t)x keeps the low 32 bits
U32(x) == x.lo

\* a null function pointer / a null data pointer
NULL == 0
NULLPTR == Word(0, 0)

----------------------------------------------------------------------------
(* semihosting.c: the statics, and what lies outside the program.  The     *)
(* fields of the variable semihosting are                                  *)
(*   fault_occurred, available, initialized   the three static flags       *)
(*   g_trace_handle    the static of stream/semihosting/heapInstStream.c   *)
(*   attached          a debugger is attached (not visible to the program) *)
(*   r0                register R0 after the last BKPT                     *)
(*   ret               value returned by the last function called          *)
(*   requests          history: every BKPT executed, with the flags then   *)
(*   op, was, asked    history: the last function called, the flags and    *)
(*                     the number of requests at its entry                 *)

SYS_OPEN == 1
SYS_CLOSE == 2
SYS_WRITE == 5
SYS_READ == 6
SYS_TIME == 17

SEMIHOSTING_ERROR_NO_DEBUGGER == -2
SEMIHOSTING_ERROR_FAULT == -3

\* number of BKPT instructions executed in a run
MaxRequests == 3

\* what an attached debugger leaves in R0: an error, zero, a file handle
DebuggerResults == {-1, 0, 3}

SemihostingStart ==
    [fault_occurred |-> FALSE, available |-> FALSE, initialized |-> FALSE,
     g_trace_handle |-> -1, attached |-> FALSE, r0 |-> 0, ret |-> 0, requests |-> <<>>,
     op |-> "none", was |-> [available |-> FALSE, initialized |-> FALSE], asked |-> 0]

\* stream/filesystem/heapInstStream.c before its first call: g_trace_file
\* is NULL; fopens counts the fopen calls, written the bytes fwrite has
\* put into the file, and op, len, ret and was_open describe the last call
FilePortStart ==
    [g_trace_file |-> NULL, fopens |-> 0, written |-> 0, op |-> "none", len |-> 0,
     ret |-> 0, was_open |-> FALSE]

\* heap_tracker.c before its first call.  heap_buffer holds the
\* buffer_index records buffered; time_us_64 is the next value of the
\* clock; console is what printf has put out of the text trace; drains is
\* the history of the resets of buffer_index by flush_buffer_to_file
TrackerStart ==
    [heap_buffer |-> <<>>, tracker_initialized |-> FALSE, log_file_handle |-> -1,
     time_us_64 |-> 0, console |-> <<>>, drains |-> <<>>]

\* the other programs before their first call
OthersStart ==
    /\ semihosting = SemihostingStart
    /\ fileport = FilePortStart
    /\ heap_tracker = TrackerStart

\* semihosting_hardfault_handler for a fault at a BKPT 0xAB: the flags are
\* set and the instruction returns -1 in R0
semihosting_hardfault_handler(m) ==
    [m EXCEPT !.fault_occurred = TRUE, !.available = FALSE, !.r0 = -1]

\* the instruction bkpt 0xAB with the operation in R0: an attached debugger
\* serves the request and leaves result in R0; without one the instruction
\* raises a HardFault
bkpt(m, reason, result) ==
    IF m.attached
    THEN [m EXCEPT !.r0 = result,
                   !.requests = Append(@, [reason |-> reason, available |-> m.available,
                                           initialized |-> m.initialized])]
    ELSE semihosting_hardfault_handler(
             [m EXCEPT !.requests = Append(@, [reason |-> reason,
                                               available |-> m.available,
                                               initialized |-> m.initialized])])

\* semihosting_init: once; the probe is a SYS_TIME request
semihosting_init(m, probe) ==
    IF m.initialized THEN m
    ELSE [bkpt([m EXCEPT !.fault_occurred = FALSE], SYS_TIME, probe) EXCEPT
             !.available = ~bkpt([m EXCEPT !.fault_occurred = FALSE], SYS_TIME,
                                 probe).fault_occurred,
             !.initialized = TRUE]

\* the part of semihosting_call after the lazy initialization, without the
\* test of semihosting_available
AfterInit_NoTest(m, reason, result) ==
    IF bkpt(m, reason, result).fault_occurred
    THEN [bkpt(m, reason, result) EXCEPT !.available = FALSE,
                                         !.ret = SEMIHOSTING_ERROR_FAULT]
    ELSE [bkpt(m, reason, result) EXCEPT !.ret = bkpt(m, reason, result).r0]

\* if (!semihosting_available) return SEMIHOSTING_ERROR_NO_DEBUGGER;
\* the BKPT; if (semihosting_fault_occurred) { ... return SEMIHOSTING_ERROR_FAULT; }
\* return result;
AfterInit(m, reason, result) ==
    IF ~m.available THEN [m EXCEPT !.ret = SEMIHOSTING_ERROR_NO_DEBUGGER]
    ELSE IF bkpt(m, reason, result).fault_occurred
         THEN [bkpt(m, reason, result) EXCEPT !.available = FALSE,
                                              !.ret = SEMIHOSTING_ERROR_FAULT]
         ELSE [bkpt(m, reason, result) EXCEPT !.ret = bkpt(m, reason, result).r0]

\* semihosting_call(reason, arg), which semihosting_open, semihosting_close,
\* semihosting_write and semihosting_read call with SYS_OPEN, SYS_CLOSE,
\* SYS_WRITE and SYS_READ
semihosting_call(m, reason, result, probe) ==
    AfterInit(semihosting_init(m, probe), reason, result)

\* semihosting_is_available
semihosting_is_available(m, probe) ==
    [semihosting_init(m, probe) EXCEPT !.ret = IF semihosting_init(m, probe).available
                                                THEN 1 ELSE 0]

\* g_trace_handle = semihosting_open(...); return (g_trace_handle >= 0) ? 0 : -1;
OpenTraceFile(m) == [m EXCEPT !.g_trace_handle = m.ret, !.ret = IF m.ret >= 0 THEN 0 ELSE -1]

\* heapInstStreamPort_Init of the semihosting port
SemihostingPort_Init(m, result, probe) ==
    IF semihosting_is_available(m, probe).ret = 0
    THEN [semihosting_is_available(m, probe) EXCEPT !.ret = -1]
    ELSE OpenTraceFile(semihosting_call(semihosting_is_available(m, probe),
                                        SYS_OPEN, result, probe))

\* heapInstStreamPort_Write of the semihosting port
SemihostingPort_Write(m, result, probe) ==
    IF m.g_trace_handle < 0 THEN [m EXCEPT !.ret = -1]
    ELSE semihosting_call(m, SYS_WRITE, result, probe)

\* heapInstStreamPort_Close of the semihosting port
SemihostingPort_Close(m, result, probe) ==
    IF m.g_trace_handle >= 0
    THEN [semihosting_call(m, SYS_CLOSE, result, probe) EXCEPT !.g_trace_handle = -1,
                                                               !.ret = 0]
    ELSE [m EXCEPT !.ret = 0]

----------------------------------------------------------------------------
(* The filesystem stream port.  What fopen and fwrite return is an input   *)
(* of the call: file is NULL or the FILE opened, written the number of     *)
(* bytes fwrite has written, at most len.                                  *)

\* heapInstStreamPort_Init that opens the file at every call
FilePort_Init_Reopen(f, file) ==
    [f EXCEPT !.g_trace_file = file, !.fopens = @ + 1,
              !.ret = IF file # NULL THEN 0 ELSE -1]

\* heapInstStreamPort_Init
FilePort_Init(f, file) ==
    IF f.g_trace_file # NULL THEN [f EXCEPT !.ret = 0]
    ELSE [f EXCEPT !.g_trace_file = file, !.fopens = @ + 1,
                   !.ret = IF file # NULL THEN 0 ELSE -1]

\* heapInstStreamPort_Write; len is at most the byte budget of the tracer's
\* buffer, so that (int)written is written
FilePort_Write(f, len, written) ==
    IF f.g_trace_file = NULL THEN [f EXCEPT !.ret = -1]
    ELSE [f EXCEPT !.written = @ + written,
                   !.ret = IF written # len THEN -1 ELSE written]

\* heapInstStreamPort_Flush; result is what fflush returns
FilePort_Flush(f, result) ==
    IF f.g_trace_file = NULL THEN [f EXCEPT !.ret = -1] ELSE [f EXCEPT !.ret = result]

\* heapInstStreamPort_Close
FilePort_Close(f) ==
    IF f.g_trace_file # NULL
    THEN [f EXCEPT !.g_trace_file = NULL, !.written = 0, !.ret = 0]
    ELSE [f EXCEPT !.ret = 0]

----------------------------------------------------------------------------
(* heap_tracker.c, the tracker that writes through semihosting alone.  Its *)
(* functions work on x = [k |-> the tracker, m |-> semihosting.c]; h holds *)
(* what the debugger would answer to the requests of the call: h.open1,    *)
(* h.open2, h.write, h.close and h.probe.                                  *)

heap_tracker_get_buffer_capacity == BufferRecords

\* log_file_handle = semihosting_open(..., OPEN_MODE_AB); if it is -1,
\* log_file_handle = semihosting_open(..., OPEN_MODE_WB)
OpenLogFile(x, h) ==
    IF semihosting_call(x.m, SYS_OPEN, h.open1, h.probe).ret = -1
    THEN [k |-> [x.k EXCEPT !.log_file_handle =
                    semihosting_call(semihosting_call(x.m, SYS_OPEN, h.open1, h.probe),
                                     SYS_OPEN, h.open2, h.probe).ret],
          m |-> semihosting_call(semihosting_call(x.m, SYS_OPEN, h.open1, h.probe),
                                 SYS_OPEN, h.open2, h.probe)]
    ELSE [k |-> [x.k EXCEPT !.log_file_handle =
                    semihosting_call(x.m, SYS_OPEN, h.open1, h.probe).ret],
          m |-> semihosting_call(x.m, SYS_OPEN, h.open1, h.probe)]

\* the lines of the console fallback for the records buffered
ConsoleLines(k) ==
    << <<"--- HEAP_TRACE_START ---\n">> >>
    \o [i \in 1..Len(k.heap_buffer) |->
          <<"RECORD:%zu,OP:%u,TIME:%llu", i - 1, k.heap_buffer[i].operation,
            k.heap_buffer[i].timestamp_us>>]
    \o << <<"--- HEAP_TRACE_END ---\n">> >>

\* the console fallback and buffer_index = 0
ConsoleFallback(k) ==
    [k EXCEPT !.console = @ \o ConsoleLines(k),
              !.drains = Append(@, [recs |-> k.heap_buffer, handle |-> k.log_file_handle,
                                    text |-> TRUE, served |-> FALSE]),
              !.heap_buffer = <<>>]

\* bytes_written = semihosting_write(log_file_handle, heap_buffer, ...); the
\* messages; buffer_index = 0
WriteLogFile(x, h) ==
    [k |-> [x.k EXCEPT
               !.drains = Append(@, [recs |-> x.k.heap_buffer,
                                     handle |-> x.k.log_file_handle, text |-> FALSE,
                                     served |-> /\ x.m.attached
                                                /\ semihosting_call(x.m, SYS_WRITE, h.write,
                                                                    h.probe).requests
                                                      # x.m.requests]),
               !.heap_buffer = <<>>],
     m |-> semihosting_call(x.m, SYS_WRITE, h.write, h.probe)]

flush_buffer_to_file(x, h) ==
    IF x.k.heap_buffer = <<>> THEN x
    ELSE IF x.k.log_file_handle = -1
         THEN IF OpenLogFile(x, h).k.log_file_handle = -1
              THEN [OpenLogFile(x, h) EXCEPT !.k = ConsoleFallback(OpenLogFile(x, h).k)]
              ELSE WriteLogFile(OpenLogFile(x, h), h)
         ELSE WriteLogFile(x, h)

\* log_heap_operation of heap_tracker.c; the record takes the time read
\* before the call
tracker_log_heap_operation(x, operation, h) ==
    [(IF Len(x.k.heap_buffer) >= heap_tracker_get_buffer_capacity
      THEN flush_buffer_to_file(x, h) ELSE x)
     EXCEPT !.k.heap_buffer = Append(@, [operation |-> operation,
                                         timestamp_us |-> x.k.time_us_64 - 1])]

\* time_us_64()
Tick(x) == [x EXCEPT !.k.time_us_64 = @ + 1]

heap_tracker_init(x, h) ==
    IF x.k.tracker_initialized THEN x
    ELSE tracker_log_heap_operation(
             Tick([x EXCEPT !.k.tracker_initialized = TRUE, !.k.heap_buffer = <<>>]),
             HEAP_OP_INIT, h)

\* heap_tracked_malloc, heap_tracked_free and heap_tracked_realloc: the lazy
\* initialization, then the record of the operation
heap_tracked(x, operation, h) ==
    tracker_log_heap_operation(Tick(heap_tracker_init(x, h)), operation, h)

\* if (log_file_handle != -1) { semihosting_close(log_file_handle); log_file_handle = -1; }
CloseLogFile(x, h) ==
    IF x.k.log_file_handle # -1
    THEN [k |-> [x.k EXCEPT !.log_file_handle = -1],
          m |-> semihosting_call(x.m, SYS_CLOSE, h.close, h.probe)]
    ELSE x

heap_tracker_flush(x, h) ==
    CloseLogFile(IF x.k.tracker_initialized /\ x.k.heap_buffer # <<>>
                 THEN flush_buffer_to_file(x, h) ELSE x, h)

----------------------------------------------------------------------------
(* Records *)

Record(op, ts, a1, a2, a3) ==
    [operation |-> op, padding |-> 0, reserved |-> 0, timestamp_us |-> ts,
     arg1 |-> a1, arg2 |-> a2, arg3 |-> a3]

\* static storage is zero-initialised
ZeroRecord == Record(0, 0, 0, 0, 0)

\* the records currently held: heap_buffer[0 .. buffer_index-1]
Buffered(s) ==
    [i \in 1..(IF s.buffer_index <= heap_inst_get_buffer_capacity
               THEN s.buffer_index ELSE heap_inst_get_buffer_capacity)
        |-> s.heap_buffer[i - 1]]

----------------------------------------------------------------------------
(* Platform hooks.  A slot holds 0 (NULL) or the id of the registered      *)
(* callback.                                                               *)

NoHooks ==
    [timestamp_us |-> NULL, timestamp_ctx |-> NULL, log |-> NULL, log_ctx |-> NULL,
     lock |-> NULL, lock_ctx |-> NULL, unlock |-> NULL, unlock_ctx |-> NULL]

\* a hook set whose callbacks and contexts all carry the number id
HooksOf(id) ==
    [timestamp_us |-> id, timestamp_ctx |-> id, log |-> id, log_ctx |-> id,
     lock |-> id, lock_ctx |-> id, unlock |-> id, unlock_ctx |-> id]

\* the hook set a caller registers: a clock, a log sink and the lock/unlock
\* pair; registering a null pointer clears all four slots
HookSets == {HooksOf(1)}

Call(s, name) == [s EXCEPT !.calls = Append(@, name)]

\* g_platform_hooks.slot(g_platform_hooks.slot_ctx): the callback and the
\* context are the ones the slot holds at the moment of the call
Invoke(s, slot, fn, ctx) ==
    [s EXCEPT !.invoked = Append(@, [slot |-> slot, fn |-> fn, ctx |-> ctx])]

heapInst_lock(s) ==
    IF g_platform_hooks.lock # NULL
    THEN Invoke(Call(s, "lock"), "lock", g_platform_hooks.lock, g_platform_hooks.lock_ctx)
    ELSE s

heapInst_unlock(s) ==
    IF g_platform_hooks.unlock # NULL
    THEN Invoke(Call(s, "unlock"), "unlock", g_platform_hooks.unlock,
                g_platform_hooks.unlock_ctx)
    ELSE s

\* one heap_inst_logf call: the formatted message goes to the log hook, or to
\* stdout when none is registered; with the switch off the call is ((void)0)
heap_inst_logf(s, msg) ==
    IF HEAPINST_CFG_DEBUG_LOG = 1
    THEN [(IF g_platform_hooks.log # NULL
           THEN Invoke(s, "log", g_platform_hooks.log, g_platform_hooks.log_ctx) ELSE s)
          EXCEPT !.log_out =
             Append(@, [sink |-> IF g_platform_hooks.log # NULL THEN "hook" ELSE "stdout",
                        msg |-> msg])]
    ELSE s

\* value returned by heap_inst_timestamp_us in state s
timestamp_value(s) ==
    IF g_platform_hooks.timestamp_us # NULL THEN s.clock ELSE 0

\* heap_inst_timestamp_us that reads the registered clock twice
heap_inst_timestamp_us_ReadTwice(s) ==
    IF g_platform_hooks.timestamp_us # NULL
    THEN [Call(Call(s, "timestamp_us"), "timestamp_us") EXCEPT !.clock = @ + 2]
    ELSE s

\* the call of the registered timestamp hook: the clock behind it ticks
TimestampHook(s) ==
    [Invoke(Call(s, "timestamp_us"), "timestamp_us", g_platform_hooks.timestamp_us,
            g_platform_hooks.timestamp_ctx)
     EXCEPT !.clock = @ + 1]

\* state after heap_inst_timestamp_us: the registered clock has ticked
heap_inst_timestamp_us(s) ==
    IF g_platform_hooks.timestamp_us # NULL THEN TimestampHook(s) ELSE s

----------------------------------------------------------------------------
(* The stream port, seen through heapInstStream.h: Init returns 0 or a     *)
(* negative code; Write returns the number of bytes written or a negative  *)
(* code.  What a given port returns is an input of the operation.          *)

StreamInitReturns == {0, -1}

StreamWriteOutcomes == {"full", "short", "error"}

\* value returned by heapInstStreamPort_Write(data, len) for an outcome
heapInstStreamPort_Write(w, len) ==
    CASE w = "full" -> len
      [] w = "short" -> len - 1
      [] OTHER -> -1

\* bytes the transport has accepted in one Write call
Accepted(wr) == IF wr.ret >= 0 THEN wr.ret ELSE 0

\* bytes the transport has accepted in all Write calls
RECURSIVE AcceptedBytes(_)
AcceptedBytes(ws) ==
    IF ws = <<>> THEN 0
    ELSE AcceptedBytes(SubSeq(ws, 1, Len(ws) - 1)) + Accepted(ws[Len(ws)])

----------------------------------------------------------------------------
(* flush_buffer_to_transport *)

\* the op-specific fields of one text line (the switch on rec->operation);
\* an operation value outside the enumeration prints no fields
RecordFields(s, rec) ==
    CASE rec.operation = HEAP_OP_INIT ->
            heap_inst_logf(s, <<",HEAP_BASE:0x%x,HEAP_SIZE:%u,FLAGS:0x%x",
                                rec.arg1, rec.arg2, rec.arg3>>)
      [] rec.operation = HEAP_OP_MALLOC ->
            heap_inst_logf(s, <<",SIZE:%u,PTR:0x%x", rec.arg1, rec.arg2>>)
      [] rec.operation = HEAP_OP_FREE ->
            heap_inst_logf(s, <<",PTR:0x%x", rec.arg1>>)
      [] rec.operation = HEAP_OP_REALLOC ->
            heap_inst_logf(s, <<",OLD_PTR:0x%x,SIZE:%u,NEW_PTR:0x%x",
                                rec.arg1, rec.arg2, rec.arg3>>)
      [] OTHER -> s

\* the message that opens the text line of heap_buffer[i]
RecordPrefix(i, rec) ==
    <<"RECORD:%zu,OP:%u,TIME:%llu", i, rec.operation, rec.timestamp_us>>

\* for (i = from; i < buffer_index; i++) { prefix; fields; "\n" }
RECURSIVE TextRecords(_, _)
TextRecords(s, i) ==
    IF i >= s.buffer_index THEN s
    ELSE LET rec == s.heap_buffer[i]
             a == heap_inst_logf(s, RecordPrefix(i, rec))
             b == RecordFields(a, rec)
             c == heap_inst_logf(b, <<"\n">>)
         IN TextRecords(c, i + 1)

\* the body of  if (!wrote_all) { ... }
TextFallback(s) ==
    LET a == IF ~s.streamport_available
             THEN heap_inst_logf(s, <<"[HEAP_TRACKER] Streamport unavailable; emitting text trace\n">>)
             ELSE heap_inst_logf(s, <<"[HEAP_TRACKER] Falling back to text trace\n">>)
        b == heap_inst_logf(a, <<"--- HEAP_TRACE_START ---\n">>)
        c == TextRecords(b, 0)
    IN heap_inst_logf(c, <<"--- HEAP_TRACE_END ---\n">>)

\* bytes_written >= 0 && (size_t)bytes_written == expected_bytes
FullWrite(bytes_written, expected_bytes) ==
    bytes_written >= 0 /\ bytes_written = expected_bytes

\* int bytes_written = heapInstStreamPort_Write(heap_buffer, expected_bytes)
WriteCall(s, expected_bytes, bytes_written) ==
    [Call(s, "Write") EXCEPT
        !.writes = Append(@, [data |-> Buffered(s), len |-> expected_bytes,
                              ret |-> bytes_written])]

\* if (!wrote_all) heap_inst_logf("... write short ...")
ShortWriteLog(s, expected_bytes, bytes_written) ==
    IF ~FullWrite(bytes_written, expected_bytes)
    THEN heap_inst_logf(s, <<"[HEAP_TRACKER] Streamport write short (%d/%zu bytes)\n",
                             bytes_written, expected_bytes>>)
    ELSE s

\* the body of  if (streamport_available) { Write; log a short write; Flush }
StreamWrite(s, expected_bytes, bytes_written) ==
    Call(ShortWriteLog(WriteCall(s, expected_bytes, bytes_written),
                       expected_bytes, bytes_written), "Flush")

\* expected_bytes = buffer_index * sizeof(heap_inst_record_t)
ExpectedBytes(s) == s.buffer_index * sizeof_heap_inst_record_t

\* the state after the first if
AfterWrite(s, w) ==
    IF s.streamport_available
    THEN StreamWrite(s, ExpectedBytes(s), heapInstStreamPort_Write(w, ExpectedBytes(s)))
    ELSE s

\* wrote_all after the first if
WroteAll(s, w) ==
    /\ s.streamport_available
    /\ FullWrite(heapInstStreamPort_Write(w, ExpectedBytes(s)), ExpectedBytes(s))

\* the state after  if (!wrote_all) { text fallback }
AfterFallback(s, wrote_all) ==
    IF ~wrote_all THEN TextFallback(s) ELSE s

\* buffer_index = 0, with the history of the drain: what left the buffer of
\* state s and where it went on the way to state t
ResetCount(s, t, wrote_all) ==
    [Call(t, "reset") EXCEPT
        !.buffer_index = 0,
        !.flushed = Append(@, [recs |-> Buffered(s), wrote_all |-> wrote_all,
                               by |-> s.last_op,
                               lines |-> SubSeq(t.log_out, Len(s.log_out) + 1,
                                                Len(t.log_out))])]

flush_buffer_to_transport(s, w) ==
    IF s.buffer_index = 0 THEN s
    ELSE ResetCount(s, AfterFallback(AfterWrite(s, w), WroteAll(s, w)), WroteAll(s, w))

----------------------------------------------------------------------------
(* log_heap_operation *)

\* StoreRecord with the index advanced before the store
\* (heap_buffer[++buffer_index] = *record)
StoreRecord_PreIncrement(s, record) ==
    LET a == IF s.buffer_index + 1 < heap_inst_get_buffer_capacity
             THEN [s EXCEPT !.heap_buffer[s.buffer_index + 1] = record]
             ELSE [s EXCEPT !.oob = TRUE]
    IN [Call(a, "append") EXCEPT !.buffer_index = @ + 1]

\* heap_buffer[buffer_index++] = *record; a store at or past the capacity
\* lands outside the array
StoreRecord(s, record) ==
    LET a == IF s.buffer_index < heap_inst_get_buffer_capacity
             THEN [s EXCEPT !.heap_buffer[s.buffer_index] = record]
             ELSE [s EXCEPT !.oob = TRUE]
    IN [Call(a, "append") EXCEPT !.buffer_index = @ + 1]

\* if (buffer_index >= capacity) flush_buffer_to_transport();
FlushIfFull(s, w) ==
    IF s.buffer_index >= heap_inst_get_buffer_capacity
    THEN flush_buffer_to_transport(s, w)
    ELSE s

\* flush on full that replaces the store instead of preceding it
FlushOrStore(s, record, w) ==
    IF s.buffer_index >= heap_inst_get_buffer_capacity
    THEN flush_buffer_to_transport(s, w)
    ELSE StoreRecord(s, record)

\* the full test with > in place of >=
FlushIfOverfull(s, w) ==
    IF s.buffer_index > heap_inst_get_buffer_capacity
    THEN flush_buffer_to_transport(s, w)
    ELSE s

\* the drain of a buffer with one free slot left
FlushIfAlmostFull(s, w) ==
    IF s.buffer_index + 1 >= heap_inst_get_buffer_capacity
    THEN flush_buffer_to_transport(s, w)
    ELSE s

\* a flush on full that takes and releases the lock itself
LockedFlushIfFull(s, w) ==
    IF s.buffer_index >= heap_inst_get_buffer_capacity
    THEN heapInst_unlock(flush_buffer_to_transport(heapInst_lock(s), w))
    ELSE s

\* log_heap_operation that drops the record that found the buffer full
log_heap_operation_DropOnFull(s, record, w) ==
    heapInst_unlock(FlushOrStore(heapInst_lock(s), record, w))

\* log_heap_operation whose full test is  buffer_index > capacity
log_heap_operation_OffByOne(s, record, w) ==
    heapInst_unlock(StoreRecord(FlushIfOverfull(heapInst_lock(s), w), record))

\* log_heap_operation that drains one record early
log_heap_operation_FlushEarly(s, record, w) ==
    heapInst_unlock(StoreRecord(FlushIfAlmostFull(heapInst_lock(s), w), record))

\* log_heap_operation whose flush-on-full path takes the lock again
log_heap_operation_Relock(s, record, w) ==
    heapInst_unlock(StoreRecord(LockedFlushIfFull(heapInst_lock(s), w), record))

\* lock; flush if full; store; unlock
log_heap_operation(s, record, w) ==
    heapInst_unlock(StoreRecord(FlushIfFull(heapInst_lock(s), w), record))

\* history: a record has been built by its caller
Built(s, record) == [s EXCEPT !.created = Append(@, record)]

\* a caller builds a record and hands it to log_heap_operation
AppendBuilt(s, record, w) == log_heap_operation(Built(s, record), record, w)

----------------------------------------------------------------------------
(* heap_inst_init *)

\* link-time symbols of the ARM build (__end__, __StackLimit)
addr_end == 536875008
addr_StackLimit == 537133056

\* a heap_info argument: a null pointer, or a struct with its two fields
NullHeapInfo == [null |-> TRUE, heap_start |-> NULLPTR, heap_size |-> Word(0, 0)]
HeapInfo(start, size) == [null |-> FALSE, heap_start |-> start, heap_size |-> size]

\* the hint of the examples, and the degenerate hints
HintStart == Word(0, 8192)
HintSize == Word(0, 1024)

HeapInfos == {NullHeapInfo, HeapInfo(HintStart, HintSize), HeapInfo(NULLPTR, HintSize),
              HeapInfo(HintStart, Word(0, 0))}

get_auto_detected_heap_info ==
    IF HEAP_AUTO_DETECT_AVAILABLE = 1
    THEN [heap_base |-> addr_end, heap_size |-> addr_StackLimit - addr_end]
    ELSE [heap_base |-> 0, heap_size |-> 0]

\* HeapBounds that takes every hint that is not a null pointer
HeapBounds_AnyHint(heap_info) ==
    IF ~heap_info.null
    THEN [heap_base |-> U32(heap_info.heap_start), heap_size |-> U32(heap_info.heap_size),
          flags |-> HEAP_INIT_FLAG_HEAP_INFO_VALID]
    ELSE [heap_base |-> 0, heap_size |-> 0, flags |-> 0]

\* heap_base, heap_size and flags of the Init record
HeapBounds(heap_info) ==
    IF ~heap_info.null /\ heap_info.heap_start # NULLPTR /\ heap_info.heap_size # Word(0, 0)
    THEN [heap_base |-> U32(heap_info.heap_start), heap_size |-> U32(heap_info.heap_size),
          flags |-> HEAP_INIT_FLAG_HEAP_INFO_VALID]
    ELSE LET auto == get_auto_detected_heap_info
         IN [heap_base |-> auto.heap_base, heap_size |-> auto.heap_size,
             flags |-> IF auto.heap_base # 0 /\ auto.heap_size # 0
                       THEN HEAP_INIT_FLAG_HEAP_INFO_VALID ELSE 0]

\* tracker_initialized = true; buffer_index = 0;
\* streamport_available = (heapInstStreamPort_Init() == 0);
InitStart(s, init_ret) ==
    [Call(Call(s, "init_reset"), "Init") EXCEPT
        !.tracker_initialized = TRUE,
        !.buffer_index = 0,
        !.streamport_available = (init_ret = 0)]

InitRecord(current_time, hb) ==
    Record(HEAP_OP_INIT, current_time, hb.heap_base, hb.heap_size, hb.flags)

\* current_time = heap_inst_timestamp_us(); log it; build the Init record and
\* hand it to log_heap_operation
InitAppend(s, heap_info, w) ==
    AppendBuilt(heap_inst_logf(heap_inst_timestamp_us(s),
                               <<"[HEAP_TRACKER] Current timestamp_us(): %llu\n",
                                 timestamp_value(s)>>),
                InitRecord(timestamp_value(s), HeapBounds(heap_info)), w)

\* the last message of heap_inst_init
HeapRegionLog(s, hb) ==
    IF hb.flags % 2 = 1
    THEN heap_inst_logf(s, <<"[HEAP_TRACKER] Heap region: 0x%08x - 0x%08x (%u bytes)\n",
                             hb.heap_base, hb.heap_base + hb.heap_size, hb.heap_size>>)
    ELSE heap_inst_logf(s, <<"[HEAP_TRACKER] Heap region: unknown (will infer from allocations)\n">>)

\* the summary heap_inst_init logs after the Init record
InitSummary(s, hb) ==
    HeapRegionLog(
        heap_inst_logf(
            heap_inst_logf(s, <<"[HEAP_TRACKER] Initialized - buffer size: %zu records\n",
                                heap_inst_get_buffer_capacity>>),
            <<"[HEAP_TRACKER] Record size: %zu bytes\n", sizeof_heap_inst_record_t>>),
        hb)

\* heap_inst_init past its  if (tracker_initialized) return;
InitBody(s, heap_info, init_ret, w) ==
    InitSummary(InitAppend(InitStart(s, init_ret), heap_info, w), HeapBounds(heap_info))

\* heap_inst_init without its already-initialized test
heap_inst_init_NoGuard(s, heap_info, init_ret, w) ==
    InitBody(s, heap_info, init_ret, w)

heap_inst_init(s, heap_info, init_ret, w) ==
    IF s.tracker_initialized THEN s
    ELSE InitBody(s, heap_info, init_ret, w)

\* heap_inst_flush that initializes an uninitialized tracker first
heap_inst_flush_LazyInit(s, w) ==
    IF ~s.tracker_initialized THEN heap_inst_init(s, NullHeapInfo, 0, w)
    ELSE IF s.buffer_index > 0 THEN flush_buffer_to_transport(s, w)
    ELSE s

heap_inst_flush(s, w) ==
    IF s.tracker_initialized /\ s.buffer_index > 0
    THEN flush_buffer_to_transport(s, w)
    ELSE s

----------------------------------------------------------------------------
(* heap_inst_record_malloc / free / realloc *)

\* a record function without the lazy init
LazyInit_Skip(s, init_ret, w) == s

\* if (!tracker_initialized) heap_inst_init(NULL);
LazyInit(s, init_ret, w) ==
    IF ~s.tracker_initialized THEN heap_inst_init(s, NullHeapInfo, init_ret, w) ELSE s

\* build the record with the current timestamp and append it
RecordNow(s, op, a1, a2, a3, w) ==
    AppendBuilt(heap_inst_timestamp_us(s), Record(op, timestamp_value(s), a1, a2, a3), w)

MallocBody(s, size, result, w) ==
    heap_inst_logf(RecordNow(s, HEAP_OP_MALLOC, U32(size), U32(result), 0, w),
                   <<"[MALLOC] Requested %zu bytes, allocated at %p\n", size, result>>)

heap_inst_record_malloc(s, size, result, init_ret, w) ==
    MallocBody(LazyInit(s, init_ret, w), size, result, w)

\* the message after the Free record
FreeLog(s, ptr) ==
    IF ptr # NULLPTR
    THEN heap_inst_logf(s, <<"[FREE] Releasing memory at %p\n", ptr>>)
    ELSE heap_inst_logf(s, <<"[FREE] Attempted to free NULL pointer\n">>)

FreeBody(s, ptr, w) ==
    FreeLog(RecordNow(s, HEAP_OP_FREE, U32(ptr), 0, 0, w), ptr)

\* heap_inst_record_free that ignores free(NULL)
heap_inst_record_free_SkipNull(s, ptr, init_ret, w) ==
    IF ptr = NULLPTR THEN LazyInit(s, init_ret, w)
    ELSE FreeBody(LazyInit(s, init_ret, w), ptr, w)

heap_inst_record_free(s, ptr, init_ret, w) ==
    FreeBody(LazyInit(s, init_ret, w), ptr, w)

\* the message after the Realloc record
ReallocLog(s, old_ptr, new_size, result) ==
    IF old_ptr = NULLPTR
    THEN heap_inst_logf(s, <<"[REALLOC] NULL -> %zu bytes (like malloc), allocated at %p\n",
                             new_size, result>>)
    ELSE IF new_size = Word(0, 0)
    THEN heap_inst_logf(s, <<"[REALLOC] %p -> 0 bytes (like free)\n", old_ptr>>)
    ELSE heap_inst_logf(s, <<"[REALLOC] %p -> %zu bytes, new address: %p\n",
                             old_ptr, new_size, result>>)

ReallocBody(s, old_ptr, new_size, result, w) ==
    ReallocLog(RecordNow(s, HEAP_OP_REALLOC, U32(old_ptr), U32(new_size), U32(result), w),
               old_ptr, new_size, result)

\* heap_inst_record_realloc that records realloc(NULL, size) as a malloc
heap_inst_record_realloc_AsMalloc(s, old_ptr, new_size, result, init_ret, w) ==
    IF old_ptr = NULLPTR
    THEN heap_inst_record_malloc(s, new_size, result, init_ret, w)
    ELSE ReallocBody(LazyInit(s, init_ret, w), old_ptr, new_size, result, w)

heap_inst_record_realloc(s, old_ptr, new_size, result, init_ret, w) ==
    ReallocBody(LazyInit(s, init_ret, w), old_ptr, new_size, result, w)

\* registration that fills only the slots the new set provides
heap_inst_register_platform_hooks_Merge(hooks) ==
    [slot \in DOMAIN NoHooks |->
        IF hooks[slot] # NULL THEN hooks[slot] ELSE g_platform_hooks[slot]]

\* hooks ? g_platform_hooks = *hooks : memset(&g_platform_hooks, 0, ...);
\* a null hooks pointer is passed as NoHooks
heap_inst_register_platform_hooks(hooks) ==
    IF hooks # NoHooks THEN hooks ELSE NoHooks

----------------------------------------------------------------------------
(* The link-time wrappers of heapInst_wrap.c.  What the real allocator     *)
(* returns is an input of the call.                                        *)

\* a call __real_fn(args) that returned result
RealCall(s, fn, args, result) ==
    [Call(s, fn) EXCEPT !.wrapped.real = Append(@, [fn |-> fn, args |-> args,
                                                    result |-> result])]

\* the function has been entered with args
Entered(s, args) == [s EXCEPT !.wrapped.args = args]

\* return value;
Return(s, value) == [s EXCEPT !.wrapped.returned = value]

\* __wrap_malloc that records successful allocations only
wrap_malloc_SkipFailed(s, size, result, init_ret, w) ==
    IF result = NULLPTR
    THEN Return(RealCall(Entered(s, <<size>>), "__real_malloc", <<size>>, result), result)
    ELSE Return(heap_inst_record_malloc(
                    RealCall(Entered(s, <<size>>), "__real_malloc", <<size>>, result),
                    size, result, init_ret, w),
                result)

\* result = __real_malloc(size); heap_inst_record_malloc(size, result);
\* return result;
wrap_malloc(s, size, result, init_ret, w) ==
    Return(heap_inst_record_malloc(
               RealCall(Entered(s, <<size>>), "__real_malloc", <<size>>, result),
               size, result, init_ret, w),
           result)

\* the 16-bit digits of a size_t, lowest first
Digits(x) == <<x.lo % 65536, x.lo \div 65536, x.hi % 65536, x.hi \div 65536>>

\* the digits of the product of two size_t values as whole numbers, lowest
\* first: column sums of the digit products with the carries passed on
Product(a, b) ==
    LET x == Digits(a)
        y == Digits(b)
        col(k) == LET I == {i \in 1..4 : k + 2 - i \in 1..4}
                      sum[S \in SUBSET I] ==
                          IF S = {} THEN 0
                          ELSE LET i == CHOOSE j \in S : TRUE
                               IN x[i] * y[k + 2 - i] + sum[S \ {i}]
                  IN sum[I]
        carried[k \in 0..7] ==
            IF k = 0 THEN col(0) ELSE col(k) + (carried[k - 1] \div 65536)
    IN [k \in 1..8 |-> carried[k - 1] % 65536]

\* nmemb * size in size_t arithmetic: the low 64 bits of the product
size_mul(nmemb, size) ==
    Word(Product(nmemb, size)[4] * 65536 + Product(nmemb, size)[3],
         Product(nmemb, size)[2] * 65536 + Product(nmemb, size)[1])

\* result = __real_calloc(nmemb, size);
\* heap_inst_record_malloc(nmemb * size, result); return result;
wrap_calloc(s, nmemb, size, result, init_ret, w) ==
    Return(heap_inst_record_malloc(
               RealCall(Entered(s, <<nmemb, size>>), "__real_calloc", <<nmemb, size>>,
                        result),
               size_mul(nmemb, size), result, init_ret, w),
           result)

\* result = __real_realloc(ptr, size); heap_inst_record_realloc(ptr, size, result);
\* return result;
wrap_realloc(s, ptr, size, result, init_ret, w) ==
    Return(heap_inst_record_realloc(
               RealCall(Entered(s, <<ptr, size>>), "__real_realloc", <<ptr, size>>, result),
               ptr, size, result, init_ret, w),
           result)

\* heap_inst_record_free(ptr); __real_free(ptr);
wrap_free(s, ptr, init_ret, w) ==
    RealCall(heap_inst_record_free(Entered(s, <<ptr>>), ptr, init_ret, w),
             "__real_free", <<ptr>>, NULLPTR)

----------------------------------------------------------------------------
(* The state machine *)

\* no call whose arguments are kept has been made
NoWrapper == [args |-> <<>>, real |-> <<>>, returned |-> NULLPTR]

\* the tracer state the operators work on
State ==
    [heap_buffer |-> heap_buffer, buffer_index |-> buffer_index,
     tracker_initialized |-> tracker_initialized,
     streamport_available |-> streamport_available,
     clock |-> clock, writes |-> writes, log_out |-> log_out, created |-> created,
     flushed |-> flushed, calls |-> calls, invoked |-> invoked, last_op |-> last_op,
     oob |-> oob, wrapped |-> wrapped]

\* the state at the entry of public function "name"
Enter(name) ==
    [State EXCEPT !.calls = <<>>, !.invoked = <<>>, !.last_op = name, !.wrapped = NoWrapper]

\* the statics and the histories become those of t
Shared(t) ==
    /\ heap_buffer' = t.heap_buffer
    /\ buffer_index' = t.buffer_index
    /\ tracker_initialized' = t.tracker_initialized
    /\ streamport_available' = t.streamport_available
    /\ clock' = t.clock
    /\ writes' = t.writes
    /\ log_out' = t.log_out
    /\ created' = t.created
    /\ flushed' = t.flushed
    /\ calls' = t.calls
    /\ invoked' = t.invoked
    /\ last_op' = t.last_op
    /\ oob' = t.oob
    /\ wrapped' = t.wrapped
    /\ UNCHANGED OtherPrograms

\* one caller, one whole function: the state becomes t; hooks and build
\* switch stay
Becomes(t) ==
    /\ Shared(t)
    /\ UNCHANGED <<g_platform_hooks, HEAPINST_CFG_DEBUG_LOG, registered, thr, mutex,
                   heap_owner, released, handed_out, ops_begun>>

\* argument values of the tracked calls
Sizes == {Word(0, 16)}
Pointers == {Word(0, 4096)}

\* the callers of the concurrent specification, and the addresses the real
\* allocator can hand to them
Threads == {1, 2}
Addrs == Pointers

\* the locals of a thread that runs nothing
Idle ==
    [pc |-> "idle", op |-> "none", size |-> Word(0, 0), ptr |-> NULLPTR,
     result |-> NULLPTR, frees |-> 0, record |-> ZeroRecord, expected_records |-> 0,
     wrote_all |-> FALSE, index |-> 0, flush_ret |-> "idle", after |-> "idle",
     mine |-> <<>>]

RecordOps == {"heap_inst_record_malloc", "heap_inst_record_free", "heap_inst_record_realloc"}

\* heap_inst_record_* calls made so far
NumRecordCalls == Cardinality({i \in 1..Len(created) : created[i].operation # HEAP_OP_INIT})

Init ==
    /\ heap_buffer = [i \in 0..(heap_inst_get_buffer_capacity - 1) |-> ZeroRecord]
    /\ buffer_index = 0
    /\ tracker_initialized = FALSE
    /\ streamport_available = FALSE
    /\ g_platform_hooks = NoHooks
    /\ HEAPINST_CFG_DEBUG_LOG \in {0, 1}
    /\ clock = ClockStart
    /\ writes = <<>>
    /\ log_out = <<>>
    /\ created = <<>>
    /\ flushed = <<>>
    /\ calls = <<>>
    /\ invoked = <<>>
    /\ last_op = "none"
    /\ oob = FALSE
    /\ thr = [t \in Threads |-> Idle]
    /\ mutex = 0
    /\ heap_owner = [a \in Addrs |-> 0]
    /\ released = [a \in Addrs |-> 0]
    /\ handed_out = {}
    /\ ops_begun = 0
    /\ registered = g_platform_hooks
    /\ wrapped = NoWrapper
    /\ OthersStart

\* one call heap_inst_register_platform_hooks(hooks)
Register(hooks) ==
    /\ g_platform_hooks' = heap_inst_register_platform_hooks(hooks)
    /\ registered' = hooks
    /\ calls' = <<>>
    /\ invoked' = <<>>
    /\ last_op' = "heap_inst_register_platform_hooks"
    /\ UNCHANGED <<heap_buffer, buffer_index, tracker_initialized, streamport_available,
                   HEAPINST_CFG_DEBUG_LOG, clock, writes, log_out, created, flushed, oob,
                   thr, mutex, heap_owner, released, handed_out, ops_begun, wrapped,
                   OtherPrograms>>

\* heap_inst_register_platform_hooks(hooks) at any time
RegisterHooks == \E hooks \in HookSets \cup {NoHooks} : Register(hooks)

\* the inputs an operation can observe in the current state: the stream
\* port's Init is called only by the first init, its Write only by a flush
\* of a non-empty buffer with the port available
InitReturnsHere == IF tracker_initialized THEN {0} ELSE StreamInitReturns

WriteOutcomesAt(count, available) ==
    IF available /\ count > 0 THEN StreamWriteOutcomes ELSE {"full"}

\* for an operation that appends one record
WriteOutcomesOnAppend(init_ret) ==
    IF tracker_initialized
    THEN WriteOutcomesAt(IF buffer_index >= heap_inst_get_buffer_capacity
                         THEN buffer_index ELSE 0, streamport_available)
    ELSE WriteOutcomesAt(IF heap_inst_get_buffer_capacity <= 1 THEN 1 ELSE 0, init_ret = 0)

InitCall ==
    \E heap_info \in HeapInfos, init_ret \in InitReturnsHere :
        Becomes(heap_inst_init(Entered(Enter("heap_inst_init"), <<heap_info>>),
                               heap_info, init_ret, "full"))

FlushCall ==
    \E w \in WriteOutcomesAt(IF tracker_initialized THEN buffer_index ELSE 0,
                              streamport_available) :
        Becomes(heap_inst_flush(Enter("heap_inst_flush"), w))

RecordMalloc ==
    /\ NumRecordCalls < MaxRecords
    /\ \E size \in Sizes, result \in Pointers, init_ret \in InitReturnsHere :
       \E w \in WriteOutcomesOnAppend(init_ret) :
          Becomes(heap_inst_record_malloc(Enter("heap_inst_record_malloc"),
                                          size, result, init_ret, w))

RecordFree ==
    /\ NumRecordCalls < MaxRecords
    /\ \E ptr \in Pointers, init_ret \in InitReturnsHere :
       \E w \in WriteOutcomesOnAppend(init_ret) :
          Becomes(heap_inst_record_free(Enter("heap_inst_record_free"), ptr, init_ret, w))

RecordRealloc ==
    /\ NumRecordCalls < MaxRecords
    /\ \E old_ptr \in Pointers, new_size \in Sizes, result \in Pointers,
          init_ret \in InitReturnsHere :
       \E w \in WriteOutcomesOnAppend(init_ret) :
          Becomes(heap_inst_record_realloc(Enter("heap_inst_record_realloc"),
                                           old_ptr, new_size, result, init_ret, w))

\* the caller installs its hooks before tracing starts, as every example and
\* test of the repository does
SetupHooks == ~tracker_initialized /\ RegisterHooks

Next ==
    \/ SetupHooks
    \/ InitCall
    \/ FlushCall
    \/ RecordMalloc
    \/ RecordFree
    \/ RecordRealloc

Spec == Init /\ [][Next]_vars

----------------------------------------------------------------------------
(* Hooks replaced while tracing: one caller that registers another hook    *)
(* set, a partial one or none between any two calls.                       *)

\* a hook set that provides the clock alone
ClockOnly(id) == [NoHooks EXCEPT !.timestamp_us = id, !.timestamp_ctx = id]

\* the hook sets the caller passes
HookArguments == {HooksOf(1), HooksOf(2), ClockOnly(2), NoHooks}

ReRegisterHooks == \E hooks \in HookArguments : Register(hooks)

\* the calls between the registrations; the stream port is up and takes
\* every write in full
HookedInit ==
    Becomes(heap_inst_init(Enter("heap_inst_init"), NullHeapInfo, 0, "full"))

HookedFlush == Becomes(heap_inst_flush(Enter("heap_inst_flush"), "full"))

HookedMalloc ==
    /\ NumRecordCalls < MaxRecords
    /\ \E size \in Sizes, result \in Pointers :
          Becomes(heap_inst_record_malloc(Enter("heap_inst_record_malloc"),
                                          size, result, 0, "full"))

NextHooks ==
    \/ ReRegisterHooks
    \/ HookedInit
    \/ HookedFlush
    \/ HookedMalloc

SpecHooks == Init /\ [][NextHooks]_vars

----------------------------------------------------------------------------
(* One caller of the wrapped allocation functions, with sizes and          *)
(* addresses of every shape: zero, ordinary, and wider than the 32-bit     *)
(* record fields (a 64-bit host).  The stream port is up and takes every   *)
(* write in full.                                                          *)

WrapSizes == {Word(0, 0), Word(0, 16), Word(1, 16)}
WrapPointers == {NULLPTR, Word(0, 4096), Word(1, 4096)}

WrapMallocCall ==
    /\ NumRecordCalls < MaxRecords
    /\ \E size \in WrapSizes, result \in WrapPointers :
          Becomes(wrap_malloc(Enter("__wrap_malloc"), size, result, 0, "full"))

\* element counts and element sizes of calloc calls: an ordinary one, one
\* whose square passes 32 bits and one whose square passes 64 bits
CallocCounts == {Word(0, 4), Word(0, 65537), Word(1, 1)}

\* the real calloc fails whenever the product does not fit a size_t
WrapCallocCall ==
    /\ NumRecordCalls < MaxRecords
    /\ \E nmemb \in CallocCounts, size \in CallocCounts, result \in WrapPointers :
          /\ (\E k \in 5..8 : Product(nmemb, size)[k] # 0) => result = NULLPTR
          /\ Becomes(wrap_calloc(Enter("__wrap_calloc"), nmemb, size, result, 0, "full"))

WrapFreeCall ==
    /\ NumRecordCalls < MaxRecords
    /\ \E ptr \in WrapPointers :
          Becomes(wrap_free(Enter("__wrap_free"), ptr, 0, "full"))

WrapReallocCall ==
    /\ NumRecordCalls < MaxRecords
    /\ \E ptr \in WrapPointers, size \in WrapSizes, result \in WrapPointers :
          Becomes(wrap_realloc(Enter("__wrap_realloc"), ptr, size, result, 0, "full"))

NextWrap ==
    \/ WrapMallocCall
    \/ WrapFreeCall
    \/ WrapReallocCall
    \/ HookedFlush

SpecWrap == Init /\ [][NextWrap]_vars

\* hints of a 64-bit host: a start or a size that is a multiple of 2^32, and
\* a start and a size just above 2^32
HostHeapInfos == {HeapInfo(Word(1, 0), HintSize), HeapInfo(HintStart, Word(1, 0)),
                  HeapInfo(Word(1, 8192), Word(1, 1024))}

HostInitCall ==
    \E heap_info \in HeapInfos \cup HostHeapInfos, init_ret \in InitReturnsHere :
        Becomes(heap_inst_init(Entered(Enter("heap_inst_init"), <<heap_info>>),
                               heap_info, init_ret, "full"))

\* a 64-bit host: explicit initialization with a hint, and the wrapped calloc
NextHost == HostInitCall \/ WrapCallocCall \/ HookedFlush

SpecHost == Init /\ [][NextHost]_vars

----------------------------------------------------------------------------
(* The run of the unit tests: the stream port is the capturing port of     *)
(* tests/heapInstStream.c in its default mode (g_fail_after_bytes = -1).   *)

\* the capture array is as large as the tracer's buffer (both are 4096
\* bytes in the source)
TEST_STREAM_BUFFER_SIZE == HEAP_INST_BUFFER_SIZE

\* g_test_buffer_pos: Init sets it to 0 and every Write adds what it took
g_test_buffer_pos == AcceptedBytes(writes)

\* heapInstStreamPort_Write of the test port for a write of count records:
\* if (g_test_buffer_pos + len > TEST_STREAM_BUFFER_SIZE) return -1;
\* memcpy; g_test_buffer_pos += len; return len;
TestPortWrite(count) ==
    IF g_test_buffer_pos + count * sizeof_heap_inst_record_t > TEST_STREAM_BUFFER_SIZE
    THEN "error" ELSE "full"

\* void* ptr = malloc(n) of a test, through __wrap_malloc
TestMalloc ==
    /\ NumRecordCalls < MaxRecords
    /\ \E size \in WrapSizes, result \in WrapPointers :
          Becomes(wrap_malloc(Enter("__wrap_malloc"), size, result, 0,
                              TestPortWrite(buffer_index)))

TestFlush ==
    Becomes(heap_inst_flush(Enter("heap_inst_flush"), TestPortWrite(buffer_index)))

NextTest ==
    \/ HookedInit
    \/ TestMalloc
    \/ TestFlush

SpecTest == Init /\ [][NextTest]_vars

----------------------------------------------------------------------------
(* Concurrent callers.  Each thread runs __wrap_malloc, __wrap_free or     *)
(* heap_inst_flush; a step of a thread is one access to the shared statics *)
(* or one call of a hook, of the stream port or of the real allocator.     *)

\* calls the threads make in one run: a malloc, the free of its address, the
\* malloc that is handed the address again, and one call that races with
\* them; with the Init record, enough to fill the buffer and overflow it
ThreadOps == 4

\* the statics as thread t sees them at its step
TState(t) == [State EXCEPT !.calls = <<>>, !.invoked = <<>>, !.last_op = thr[t].op]

At(t, pc) == thr[t].pc = pc

AllocatorVars == <<heap_owner, released>>

\* history: the records thread t has built so far, in the order of its calls
Mine(t, s) ==
    IF Len(s.created) > Len(created)
    THEN Append(thr[t].mine, s.created[Len(s.created)]) ELSE thr[t].mine

\* thread t takes a step that leaves the statics at s and its locals at loc
Step(t, s, loc) ==
    /\ Shared([s EXCEPT !.calls = <<>>, !.invoked = <<>>, !.last_op = "threads"])
    /\ thr' = [thr EXCEPT ![t] = [loc EXCEPT !.mine = Mine(t, s)]]
    /\ UNCHANGED <<g_platform_hooks, HEAPINST_CFG_DEBUG_LOG, registered>>

\* a step that touches neither the lock, the allocator nor the call count
Moves(t, s, loc) ==
    /\ Step(t, s, loc)
    /\ UNCHANGED <<mutex, AllocatorVars, handed_out, ops_begun>>

\* thread t is free to make a call; the threads are interchangeable, and the
\* one that makes the first call of a run is named 1
MayCall(t) ==
    /\ At(t, "idle")
    /\ ops_begun < ThreadOps
    /\ ops_begun = 0 => t = 1

\* the stream port the threads write to is up and takes every write in full
ThreadInitReturns == {0}
ThreadWriteOutcomes == {"full"}

\* what __real_malloc returns: an address nobody holds, NULL when none is left
RealMallocResults ==
    IF \E a \in Addrs : heap_owner[a] = 0
    THEN {a \in Addrs : heap_owner[a] = 0} ELSE {NULLPTR}

\* what a thread passes to free: an address it holds; the first call of a run
\* may be free(NULL)
FreeArguments(t) ==
    {a \in Addrs : heap_owner[a] = t} \cup (IF ops_begun = 0 THEN {NULLPTR} ELSE {})

\* __wrap_malloc: void *result = __real_malloc(size);
WrapMalloc(t) ==
    /\ MayCall(t)
    /\ \E size \in Sizes, result \in RealMallocResults :
          /\ heap_owner' = IF result = NULLPTR THEN heap_owner
                           ELSE [heap_owner EXCEPT ![result] = t]
          /\ Step(t, TState(t),
                  [Idle EXCEPT !.pc = "lazy_init", !.op = "heap_inst_record_malloc",
                               !.size = size, !.result = result,
                               !.frees = IF result = NULLPTR THEN 0 ELSE released[result]])
    /\ ops_begun' = ops_begun + 1
    /\ UNCHANGED <<mutex, released, handed_out>>

\* __wrap_free(ptr) of an address the caller holds, or of NULL:
\* heap_inst_record_free(ptr) is entered
WrapFree(t) ==
    /\ MayCall(t)
    /\ \E ptr \in FreeArguments(t) :
          Step(t, TState(t),
               [Idle EXCEPT !.pc = "lazy_init", !.op = "heap_inst_record_free", !.ptr = ptr])
    /\ ops_begun' = ops_begun + 1
    /\ UNCHANGED <<mutex, AllocatorVars, handed_out>>

\* heap_inst_flush: if (tracker_initialized && buffer_index > 0)
\*                      flush_buffer_to_transport();
FlushBegin(t) ==
    /\ MayCall(t)
    /\ Step(t, TState(t),
            IF tracker_initialized /\ buffer_index > 0
            THEN [Idle EXCEPT !.pc = "fbt_count", !.op = "heap_inst_flush"]
            ELSE Idle)
    /\ ops_begun' = ops_begun + 1
    /\ UNCHANGED <<mutex, AllocatorVars, handed_out>>

\* if (!tracker_initialized) heap_inst_init(NULL), and in heap_inst_init
\* if (tracker_initialized) return;  the flag is read while no step of this
\* thread lies between the two tests, so one read stands for both
LazyInitTest(t) ==
    /\ At(t, "lazy_init")
    /\ Moves(t, TState(t),
             [thr[t] EXCEPT !.pc = IF tracker_initialized THEN "timestamp" ELSE "init_set"])

\* tracker_initialized = true; buffer_index = 0;
InitSet(t) ==
    /\ At(t, "init_set")
    /\ Moves(t, [Call(TState(t), "init_reset") EXCEPT !.tracker_initialized = TRUE,
                                                      !.buffer_index = 0],
             [thr[t] EXCEPT !.pc = "init_port"])

\* streamport_available = (heapInstStreamPort_Init() == 0);
InitPort(t) ==
    /\ At(t, "init_port")
    /\ \E init_ret \in ThreadInitReturns :
          Moves(t, [Call(TState(t), "Init") EXCEPT !.streamport_available = (init_ret = 0)],
                [thr[t] EXCEPT !.pc = "init_timestamp"])

\* current_time = heap_inst_timestamp_us(); the Init record is built
InitTimestamp(t) ==
    /\ At(t, "init_timestamp")
    /\ Moves(t, Built(heap_inst_logf(heap_inst_timestamp_us(TState(t)),
                                     <<"[HEAP_TRACKER] Current timestamp_us(): %llu\n",
                                       timestamp_value(TState(t))>>),
                      InitRecord(timestamp_value(TState(t)), HeapBounds(NullHeapInfo))),
             [thr[t] EXCEPT !.pc = "lock", !.after = "init_summary",
                            !.record = InitRecord(timestamp_value(TState(t)),
                                                  HeapBounds(NullHeapInfo))])

\* heapInst_lock() with a lock hook that lets every caller in
Lock_NoExclusion(t) ==
    /\ At(t, "lock")
    /\ mutex' = IF g_platform_hooks.lock # NULL THEN t ELSE mutex
    /\ Step(t, heapInst_lock(TState(t)), [thr[t] EXCEPT !.pc = "full_test"])
    /\ UNCHANGED <<AllocatorVars, handed_out, ops_begun>>

\* heapInst_lock(): the registered lock hook lets one caller in at a time
Lock(t) ==
    /\ At(t, "lock")
    /\ g_platform_hooks.lock # NULL => mutex = 0
    /\ mutex' = IF g_platform_hooks.lock # NULL THEN t ELSE mutex
    /\ Step(t, heapInst_lock(TState(t)), [thr[t] EXCEPT !.pc = "full_test"])
    /\ UNCHANGED <<AllocatorVars, handed_out, ops_begun>>

\* if (buffer_index >= capacity) flush_buffer_to_transport();
FullTest(t) ==
    /\ At(t, "full_test")
    /\ Moves(t, TState(t),
             IF buffer_index >= heap_inst_get_buffer_capacity
             THEN [thr[t] EXCEPT !.pc = "fbt_count", !.flush_ret = "store"]
             ELSE [thr[t] EXCEPT !.pc = "store"])

\* flush_buffer_to_transport: if (buffer_index == 0) return;
\* expected_bytes = buffer_index * sizeof(heap_inst_record_t);
FbtCount(t) ==
    /\ At(t, "fbt_count")
    /\ Moves(t, TState(t),
             IF buffer_index = 0
             THEN (IF thr[t].flush_ret = "idle" THEN Idle
                   ELSE [thr[t] EXCEPT !.pc = thr[t].flush_ret])
             ELSE [thr[t] EXCEPT !.pc = "fbt_write", !.expected_records = buffer_index])

\* the statics as the Write call of thread t reads them: expected_bytes was
\* computed before, the bytes of heap_buffer are read now
WriteView(t) == [TState(t) EXCEPT !.buffer_index = thr[t].expected_records]

\* the text fallback loops up to the buffer_index it reads now
FallbackView(t, s) == [s EXCEPT !.buffer_index = buffer_index]

\* the Write/Flush calls and the text fallback of flush_buffer_to_transport
FbtWrite(t) ==
    /\ At(t, "fbt_write")
    /\ \E w \in ThreadWriteOutcomes :
          Moves(t, AfterFallback(FallbackView(t, AfterWrite(WriteView(t), w)),
                                 WroteAll(WriteView(t), w)),
                [thr[t] EXCEPT !.pc = "fbt_reset", !.wrote_all = WroteAll(WriteView(t), w)])

\* buffer_index = 0; and the return to the caller of the flush
FbtReset(t) ==
    /\ At(t, "fbt_reset")
    /\ Moves(t, ResetCount(TState(t), TState(t), thr[t].wrote_all),
             IF thr[t].flush_ret = "idle" THEN Idle
             ELSE [thr[t] EXCEPT !.pc = thr[t].flush_ret, !.expected_records = 0,
                                 !.wrote_all = FALSE])

\* heap_buffer[buffer_index++] = *record;  the copy into the slot and the
\* update of buffer_index are unsequenced: the copy first ...
StoreCopyFirst(t) ==
    /\ At(t, "store")
    /\ Moves(t, IF buffer_index < heap_inst_get_buffer_capacity
                THEN [TState(t) EXCEPT !.heap_buffer[buffer_index] = thr[t].record]
                ELSE [TState(t) EXCEPT !.oob = TRUE],
             [thr[t] EXCEPT !.pc = "store_inc", !.index = buffer_index])

\* ... then buffer_index = index + 1
StoreInc(t) ==
    /\ At(t, "store_inc")
    /\ Moves(t, [Call(TState(t), "append") EXCEPT !.buffer_index = thr[t].index + 1],
             [thr[t] EXCEPT !.pc = "unlock", !.index = 0])

\* ... or the update of buffer_index first
StoreIncFirst(t) ==
    /\ At(t, "store")
    /\ Moves(t, [TState(t) EXCEPT !.buffer_index = @ + 1],
             [thr[t] EXCEPT !.pc = "store_copy", !.index = buffer_index])

\* ... then the copy into slot index
StoreCopy(t) ==
    /\ At(t, "store_copy")
    /\ Moves(t, IF thr[t].index < heap_inst_get_buffer_capacity
                THEN [Call(TState(t), "append") EXCEPT !.heap_buffer[thr[t].index] = thr[t].record]
                ELSE [Call(TState(t), "append") EXCEPT !.oob = TRUE],
             [thr[t] EXCEPT !.pc = "unlock", !.index = 0])

\* heapInst_unlock(), and the return from log_heap_operation
Unlock(t) ==
    /\ At(t, "unlock")
    /\ mutex' = IF g_platform_hooks.unlock # NULL THEN 0 ELSE mutex
    /\ Step(t, heapInst_unlock(TState(t)),
            [thr[t] EXCEPT !.pc = thr[t].after, !.record = ZeroRecord])
    /\ UNCHANGED <<AllocatorVars, handed_out, ops_begun>>

\* the summary messages of heap_inst_init, and the return to the record
\* function that called it
InitSummaryLogs(t) ==
    /\ At(t, "init_summary")
    /\ Moves(t, InitSummary(TState(t), HeapBounds(NullHeapInfo)),
             [thr[t] EXCEPT !.pc = "timestamp"])

\* the record a record function builds at time ts
OpRecord(loc, ts) ==
    CASE loc.op = "heap_inst_record_malloc" ->
            Record(HEAP_OP_MALLOC, ts, U32(loc.size), U32(loc.result), 0)
      [] loc.op = "heap_inst_record_realloc" ->
            Record(HEAP_OP_REALLOC, ts, U32(loc.ptr), U32(loc.size), U32(loc.result))
      [] OTHER -> Record(HEAP_OP_FREE, ts, U32(loc.ptr), 0, 0)

\* .timestamp_us = heap_inst_timestamp_us(): the record is built
Timestamp(t) ==
    /\ At(t, "timestamp")
    /\ Step(t, Built(heap_inst_timestamp_us(TState(t)),
                     OpRecord(thr[t], timestamp_value(TState(t)))),
            [thr[t] EXCEPT !.pc = "lock", !.after = "op_log",
                           !.record = OpRecord(thr[t], timestamp_value(TState(t)))])
    /\ handed_out' = handed_out \cup
          (IF thr[t].op = "heap_inst_record_malloc" /\ thr[t].result # NULLPTR
           THEN {[record |-> OpRecord(thr[t], timestamp_value(TState(t))),
                  frees |-> thr[t].frees]}
           ELSE {})
    /\ UNCHANGED <<mutex, AllocatorVars, ops_begun>>

\* the message after log_heap_operation; __wrap_malloc and __wrap_realloc
\* return result, __wrap_free goes on to __real_free
OpLog(t) ==
    /\ At(t, "op_log")
    /\ Moves(t, CASE thr[t].op = "heap_inst_record_malloc" ->
                     heap_inst_logf(TState(t),
                                    <<"[MALLOC] Requested %zu bytes, allocated at %p\n",
                                      thr[t].size, thr[t].result>>)
                  [] thr[t].op = "heap_inst_record_realloc" ->
                     ReallocLog(TState(t), thr[t].ptr, thr[t].size, thr[t].result)
                  [] OTHER -> FreeLog(TState(t), thr[t].ptr),
             IF thr[t].op = "heap_inst_record_free"
             THEN [thr[t] EXCEPT !.pc = "real_free"] ELSE Idle)

\* __real_free(ptr)
RealFree(t) ==
    /\ At(t, "real_free")
    /\ heap_owner' = IF thr[t].ptr = NULLPTR THEN heap_owner
                     ELSE [heap_owner EXCEPT ![thr[t].ptr] = 0]
    /\ released' = IF thr[t].ptr = NULLPTR THEN released
                   ELSE [released EXCEPT ![thr[t].ptr] = @ + 1]
    /\ Step(t, TState(t), Idle)
    /\ UNCHANGED <<mutex, handed_out, ops_begun>>

\* the threads start on an uninitialized tracer whose hooks (clock, log sink
\* and the lock/unlock pair) have been registered
InitThreads ==
    /\ heap_buffer = [i \in 0..(heap_inst_get_buffer_capacity - 1) |-> ZeroRecord]
    /\ buffer_index = 0
    /\ tracker_initialized = FALSE
    /\ streamport_available = FALSE
    /\ g_platform_hooks \in HookSets
    /\ HEAPINST_CFG_DEBUG_LOG = 1
    /\ clock = ClockStart
    /\ writes = <<>>
    /\ log_out = <<>>
    /\ created = <<>>
    /\ flushed = <<>>
    /\ calls = <<>>
    /\ invoked = <<>>
    /\ last_op = "none"
    /\ oob = FALSE
    /\ thr = [t \in Threads |-> Idle]
    /\ mutex = 0
    /\ heap_owner = [a \in Addrs |-> 0]
    /\ released = [a \in Addrs |-> 0]
    /\ handed_out = {}
    /\ ops_begun = 0
    /\ registered = g_platform_hooks
    /\ wrapped = NoWrapper
    /\ OthersStart

ThreadStep(t) ==
        \/ WrapMalloc(t)
        \/ WrapFree(t)
        \/ FlushBegin(t)
        \/ LazyInitTest(t)
        \/ InitSet(t)
        \/ InitPort(t)
        \/ InitTimestamp(t)
        \/ InitSummaryLogs(t)
        \/ Timestamp(t)
        \/ Lock(t)
        \/ FullTest(t)
        \/ FbtCount(t)
        \/ FbtWrite(t)
        \/ FbtReset(t)
        \/ StoreCopyFirst(t)
        \/ StoreInc(t)
        \/ StoreIncFirst(t)
        \/ StoreCopy(t)
        \/ Unlock(t)
        \/ OpLog(t)
        \/ RealFree(t)

NextThreads == \E t \in Threads : ThreadStep(t)

----------------------------------------------------------------------------
(* The threads call the wrapped realloc as well. *)

\* where the real realloc moves a block to: an address outside the pool the
\* real malloc serves from
MovedTo == Word(0, 8192)

\* __wrap_realloc(ptr, size) of an address the caller holds:
\* void *result = __real_realloc(ptr, size);  the real realloc fails and
\* leaves the block alone, or moves it and releases ptr
WrapRealloc(t) ==
    /\ MayCall(t)
    /\ \E ptr \in {a \in Addrs : heap_owner[a] = t}, size \in Sizes,
          result \in {NULLPTR, MovedTo} :
          /\ heap_owner' = IF result = NULLPTR THEN heap_owner
                           ELSE [heap_owner EXCEPT ![ptr] = 0]
          /\ released' = IF result = NULLPTR THEN released
                         ELSE [released EXCEPT ![ptr] = @ + 1]
          /\ Step(t, TState(t),
                  [Idle EXCEPT !.pc = "lazy_init", !.op = "heap_inst_record_realloc",
                               !.ptr = ptr, !.size = size, !.result = result])
    /\ ops_begun' = ops_begun + 1
    /\ UNCHANGED <<mutex, handed_out>>

\* the calls of the wrapped malloc, free and realloc, and the steps inside them
NextRealloc ==
    \E t \in Threads :
        \/ WrapMalloc(t)
        \/ WrapFree(t)
        \/ WrapRealloc(t)
        \/ LazyInitTest(t)
        \/ InitSet(t)
        \/ InitPort(t)
        \/ InitTimestamp(t)
        \/ InitSummaryLogs(t)
        \/ Timestamp(t)
        \/ Lock(t)
        \/ FullTest(t)
        \/ FbtCount(t)
        \/ FbtWrite(t)
        \/ FbtReset(t)
        \/ StoreCopyFirst(t)
        \/ StoreInc(t)
        \/ StoreIncFirst(t)
        \/ StoreCopy(t)
        \/ Unlock(t)
        \/ OpLog(t)
        \/ RealFree(t)

SpecRealloc == InitThreads /\ [][NextRealloc]_vars

SpecThreads == InitThreads /\ [][NextThreads]_vars

----------------------------------------------------------------------------
(* Re-entry: the stream port's Write calls the wrapped allocation          *)
(* functions itself.  There is one thread; frame 1 is the call of the      *)
(* program and frame 2 a call made from inside heapInstStreamPort_Write     *)
(* during the flush-on-full of frame 1, which is suspended until frame 2    *)
(* returns.                                                                *)

Runs(t) ==
    IF t = 1 THEN thr[2].pc = "idle"
    ELSE thr[1].pc = "fbt_write" /\ thr[1].flush_ret = "store"

NextReentry ==
    \E t \in Threads :
        \/ Runs(t) /\ WrapMalloc(t)
        \/ Runs(t) /\ WrapFree(t)
        \/ Runs(t) /\ FlushBegin(t)
        \/ Runs(t) /\ LazyInitTest(t)
        \/ Runs(t) /\ InitSet(t)
        \/ Runs(t) /\ InitPort(t)
        \/ Runs(t) /\ InitTimestamp(t)
        \/ Runs(t) /\ InitSummaryLogs(t)
        \/ Runs(t) /\ Timestamp(t)
        \/ Runs(t) /\ Lock(t)
        \/ Runs(t) /\ FullTest(t)
        \/ Runs(t) /\ FbtCount(t)
        \/ Runs(t) /\ FbtWrite(t)
        \/ Runs(t) /\ FbtReset(t)
        \/ Runs(t) /\ StoreCopyFirst(t)
        \/ Runs(t) /\ StoreInc(t)
        \/ Runs(t) /\ StoreIncFirst(t)
        \/ Runs(t) /\ StoreCopy(t)
        \/ Runs(t) /\ Unlock(t)
        \/ Runs(t) /\ OpLog(t)
        \/ Runs(t) /\ RealFree(t)

SpecReentry == InitThreads /\ [][NextReentry]_vars

----------------------------------------------------------------------------
(* Registration during tracing: thread 1 makes the wrapped calls while     *)
(* another context (a second thread, an interrupt handler) calls           *)
(* heap_inst_register_platform_hooks between any two of its steps.         *)

NextRegister ==
    \/ ThreadStep(1)
    \/ RegisterHooks

SpecRegister == InitThreads /\ [][NextRegister]_vars

----------------------------------------------------------------------------
(* A program that uses semihosting.c and the semihosting stream port,      *)
(* while a debugger is attached and detached at any time.                  *)

\* the state at the entry of function "name"
Called(name) ==
    [semihosting EXCEPT !.op = name,
                        !.was = [available |-> semihosting.available,
                                 initialized |-> semihosting.initialized],
                        !.asked = Len(semihosting.requests)]

\* the function called has returned in state m
Returned(m) ==
    /\ Len(semihosting.requests) < MaxRequests
    /\ semihosting' = m
    /\ UNCHANGED <<heapInst_vars, fileport, heap_tracker>>

SemihostingInit ==
    \E probe \in DebuggerResults :
        Returned(semihosting_init(Called("semihosting_init"), probe))

\* semihosting_open, semihosting_close, semihosting_write, semihosting_read
SemihostingCall ==
    \E reason \in {SYS_OPEN, SYS_CLOSE, SYS_WRITE, SYS_READ},
       result \in DebuggerResults, probe \in DebuggerResults :
        Returned(semihosting_call(Called("semihosting_call"), reason, result, probe))

StreamPortInit ==
    \E result \in DebuggerResults, probe \in DebuggerResults :
        Returned(SemihostingPort_Init(Called("heapInstStreamPort_Init"), result, probe))

StreamPortWrite ==
    \E result \in DebuggerResults, probe \in DebuggerResults :
        Returned(SemihostingPort_Write(Called("heapInstStreamPort_Write"), result, probe))

StreamPortClose ==
    \E result \in DebuggerResults, probe \in DebuggerResults :
        Returned(SemihostingPort_Close(Called("heapInstStreamPort_Close"), result, probe))

\* the debugger is attached, or detached
DebuggerPlug ==
    /\ semihosting' = [semihosting EXCEPT !.attached = ~@]
    /\ UNCHANGED <<heapInst_vars, fileport, heap_tracker>>

NextSemihosting ==
    \/ SemihostingInit
    \/ SemihostingCall
    \/ StreamPortInit
    \/ StreamPortWrite
    \/ StreamPortClose
    \/ DebuggerPlug

SpecSemihosting == Init /\ [][NextSemihosting]_vars

----------------------------------------------------------------------------
(* A program that calls the filesystem stream port in any order, with a    *)
(* file system on which fopen can fail and fwrite can stop early.          *)

\* fopen calls made in a run
MaxOpens == 3

\* the FILE fopen returns
TraceFile == 1

\* byte counts handed to Write: nothing, one record, a full buffer
WriteLens == {0, sizeof_heap_inst_record_t, HEAP_INST_BUFFER_SIZE}

\* the state at the entry of port function "name" called with len
PortCalled(name, len) ==
    [fileport EXCEPT !.op = name, !.len = len, !.was_open = (fileport.g_trace_file # NULL)]

\* the port function has returned in state f
PortReturned(f) ==
    /\ fileport' = f
    /\ UNCHANGED <<heapInst_vars, semihosting, heap_tracker>>

FilePortInit ==
    /\ fileport.fopens < MaxOpens
    /\ \E file \in {NULL, TraceFile} :
          PortReturned(FilePort_Init(PortCalled("heapInstStreamPort_Init", 0), file))

FilePortWrite ==
    \E len \in WriteLens : \E written \in {0, len \div 2, len} :
        /\ fileport.written + written <= HEAP_INST_BUFFER_SIZE
        /\ PortReturned(FilePort_Write(PortCalled("heapInstStreamPort_Write", len),
                                       len, written))

FilePortFlush ==
    \E result \in {0, -1} :
        PortReturned(FilePort_Flush(PortCalled("heapInstStreamPort_Flush", 0), result))

FilePortClose ==
    PortReturned(FilePort_Close(PortCalled("heapInstStreamPort_Close", 0)))

NextFilePort == FilePortInit \/ FilePortWrite \/ FilePortFlush \/ FilePortClose

SpecFilePort == Init /\ [][NextFilePort]_vars

----------------------------------------------------------------------------
(* A program that uses heap_tracker.c, with a debugger attached or not.    *)

\* records made in a run
MaxTracked == 3

\* what the debugger would answer to the requests of one call
HostAnswers ==
    [open1 : DebuggerResults, open2 : DebuggerResults, write : DebuggerResults,
     close : {0}, probe : {0}]

\* the tracker and semihosting.c at the entry of a function of the tracker
TrackerCalled(name) == [k |-> heap_tracker, m |-> Called(name)]

\* the function has returned in state x
TrackerReturned(x) ==
    /\ heap_tracker.time_us_64 < MaxTracked
    /\ heap_tracker' = x.k
    /\ semihosting' = x.m
    /\ UNCHANGED <<heapInst_vars, fileport>>

TrackerInit ==
    \E h \in HostAnswers :
        TrackerReturned(heap_tracker_init(TrackerCalled("heap_tracker_init"), h))

TrackedMalloc ==
    \E h \in HostAnswers :
        TrackerReturned(heap_tracked(TrackerCalled("heap_tracked_malloc"),
                                     HEAP_OP_MALLOC, h))

TrackedFree ==
    \E h \in HostAnswers :
        TrackerReturned(heap_tracked(TrackerCalled("heap_tracked_free"), HEAP_OP_FREE, h))

TrackedRealloc ==
    \E h \in HostAnswers :
        TrackerReturned(heap_tracked(TrackerCalled("heap_tracked_realloc"),
                                     HEAP_OP_REALLOC, h))

TrackerFlush ==
    \E h \in HostAnswers :
        TrackerReturned(heap_tracker_flush(TrackerCalled("heap_tracker_flush"), h))

NextTracker ==
    \/ TrackerInit
    \/ TrackedMalloc
    \/ TrackedFree
    \/ TrackedRealloc
    \/ TrackerFlush
    \/ DebuggerPlug

SpecTracker == Init /\ [][NextTracker]_vars

----------------------------------------------------------------------------
(* Properties *)

Range(seq) == {seq[i] : i \in 1..Len(seq)}

\* the records of all Write calls, one after the other
RECURSIVE WrittenRecords(_)
WrittenRecords(ws) ==
    IF ws = <<>> THEN <<>>
    ELSE WrittenRecords(SubSeq(ws, 1, Len(ws) - 1)) \o ws[Len(ws)].data


\* the stream port came up (or has not been asked yet) and has accepted
\* every write in full
TransportAcceptsAll ==
    /\ tracker_initialized => streamport_available
    /\ \A i \in 1..Len(writes) : writes[i].ret = writes[i].len

C2_StreamThenBufferIsHistory ==
    TransportAcceptsAll => WrittenRecords(writes) \o Buffered(State) = created

C2_Witness ==
    /\ TransportAcceptsAll
    /\ Len(writes) = 2
    /\ flushed[1].by \in RecordOps
    /\ flushed[2].by = "heap_inst_flush"
    /\ Len(created) = heap_inst_get_buffer_capacity + 1

\* the text line of record k of drain f has been delivered to a sink
LineDelivered(f, k) ==
    \E j \in 1..Len(f.lines) :
        /\ f.lines[j].msg[1] = RecordPrefix(k - 1, f.recs[k])[1]
        /\ f.lines[j].msg = RecordPrefix(k - 1, f.recs[k])
        /\ f.lines[j].sink \in {"hook", "stdout"}

\* C3: every record a flush removes from the buffer was accepted in full by
\* the transport or rendered as a text line through the log hook (or stdout),
\* for every setting of the debug-log switch and every transport outcome.
C3_NoRecordDrainedUnseen ==
    \A i \in 1..Len(flushed) :
        flushed[i].wrote_all \/ \A k \in 1..Len(flushed[i].recs) : LineDelivered(flushed[i], k)

\* C4: 0 <= count <= capacity in every reachable state and no record is stored
\* past the end of the array; a record_* call arriving at count = capacity
\* drains the buffer first and leaves count = 1.
C4_CountWithinCapacity ==
    /\ [](buffer_index \in 0..heap_inst_get_buffer_capacity /\ ~oob)
    /\ [][(last_op' \in RecordOps /\ buffer_index = heap_inst_get_buffer_capacity)
            => (buffer_index' = 1 /\ Len(flushed') = Len(flushed) + 1
                /\ flushed'[Len(flushed')].recs = Buffered(State))]_vars

C4_Witness ==
    /\ last_op \in RecordOps
    /\ buffer_index = 1
    /\ "reset" \in Range(calls)

\* the run is: init, N record_* calls, one explicit flush that drained
OneFinalFlush ==
    /\ last_op = "heap_inst_flush"
    /\ buffer_index = 0
    /\ flushed # <<>>
    /\ flushed[Len(flushed)].by = "heap_inst_flush"
    /\ \A i \in 1..(Len(flushed) - 1) : flushed[i].by \in RecordOps

\* C5: with a transport that accepts every write, init, N record_* calls and
\* one explicit flush make exactly floor(N / capacity) + 1 writes: every
\* automatic one of capacity records, the final one of the remaining
\* N + 1 - capacity * floor(N / capacity) records.
C5_WriteCountAndSizes ==
    (TransportAcceptsAll /\ OneFinalFlush) =>
        LET N == Len(created) - 1
            cap == heap_inst_get_buffer_capacity
            k == N \div cap
        IN /\ Len(writes) = k + 1
           /\ \A i \in 1..k : /\ Len(writes[i].data) = cap
                              /\ writes[i].len = cap * sizeof_heap_inst_record_t
           /\ Len(writes[k + 1].data) = N + 1 - cap * k
           /\ writes[k + 1].len = (N + 1 - cap * k) * sizeof_heap_inst_record_t

C5_Witness ==
    /\ TransportAcceptsAll /\ OneFinalFlush
    /\ Len(created) - 1 = heap_inst_get_buffer_capacity
    /\ Len(writes) = 2

\* message i of the log is the START marker and a later one opens the text
\* line of a Malloc record
MarkerThenMallocLine ==
    \E i, j \in 1..Len(log_out) :
        /\ i < j
        /\ log_out[i].msg = <<"--- HEAP_TRACE_START ---\n">>
        /\ log_out[j].msg[1] = "RECORD:%zu,OP:%u,TIME:%llu"
        /\ log_out[j].msg[3] = HEAP_OP_MALLOC

\* C6: if every transport write fails, then after init, one tracked malloc and
\* a flush no byte has been accepted by the transport, the log sink holds the
\* START marker followed by a record line with OP:1, and the count is 0.
C6_FailedWriteFallsBackToText ==
    ( /\ last_op = "heap_inst_flush"
      /\ Len(created) = 2 /\ created[2].operation = HEAP_OP_MALLOC
      /\ Len(flushed) = 1 /\ flushed[1].by = "heap_inst_flush"
      /\ \A i \in 1..Len(writes) : writes[i].ret < 0 ) =>
        /\ AcceptedBytes(writes) = 0
        /\ MarkerThenMallocLine
        /\ buffer_index = 0

\* C7: heap_inst_init on an initialized tracer changes nothing: no second Init
\* record, same count and contents, no call of the stream port's Init or of
\* the timestamp hook; the history never holds two Init records.
C7_InitIsIdempotent ==
    /\ [][(tracker_initialized /\ last_op' = "heap_inst_init")
            => /\ calls' = <<>>
               /\ UNCHANGED <<heap_buffer, buffer_index, tracker_initialized,
                              streamport_available, clock, writes, log_out, created,
                              flushed, oob>>]_vars
    /\ [](Cardinality({i \in 1..Len(created) : created[i].operation = HEAP_OP_INIT}) <= 1)

C7_Witness ==
    /\ last_op = "heap_inst_init"
    /\ tracker_initialized
    /\ calls = <<>>
    /\ Len(created) = 1 /\ buffer_index = 1

\* the operation kind a record function writes
KindOf(op) ==
    CASE op = "heap_inst_record_malloc" -> HEAP_OP_MALLOC
      [] op = "heap_inst_record_free" -> HEAP_OP_FREE
      [] op = "heap_inst_record_realloc" -> HEAP_OP_REALLOC
      [] OTHER -> HEAP_OP_INIT

\* C8: a record_* call on an uninitialized tracer performs the full init
\* (stream port Init, Init record) and then appends its own record: afterwards
\* the tracer is initialized and the buffer holds the Init record followed by
\* the operation's record, the Init timestamp read before the operation's.
C8_LazyInitThenRecord ==
    [][(~tracker_initialized /\ last_op' \in RecordOps) =>
          /\ tracker_initialized'
          /\ "Init" \in Range(calls')
          /\ buffer_index' = 2
          /\ Len(created') = 2
          /\ heap_buffer'[0] = created'[1] /\ heap_buffer'[1] = created'[2]
          /\ created'[1].operation = HEAP_OP_INIT
          /\ created'[2].operation = KindOf(last_op')
          /\ created'[1].timestamp_us = timestamp_value(State)
          /\ created'[2].timestamp_us =
                IF g_platform_hooks.timestamp_us # NULL THEN clock + 1 ELSE 0]_vars

C8_Witness ==
    /\ last_op \in RecordOps
    /\ "Init" \in Range(calls)
    /\ buffer_index = 2
    /\ heap_buffer[0].timestamp_us = ClockStart
    /\ heap_buffer[1].timestamp_us = ClockStart + 1

\* lock calls minus unlock calls among the first n calls of the operation
RECURSIVE LockDepth(_, _)
LockDepth(cs, n) ==
    IF n = 0 THEN 0
    ELSE LockDepth(cs, n - 1)
         + (IF cs[n] = "lock" THEN 1 ELSE IF cs[n] = "unlock" THEN -1 ELSE 0)

BufferMutations == {"append", "reset", "init_reset"}

\* C9: with a lock/unlock pair registered, every change of the count or the
\* contents (the append, the reset of an automatic flush, the reset of an
\* explicit heap_inst_flush and the reset in heap_inst_init) happens while the
\* caller holds the lock.
C9_MutationsUnderLock ==
    (g_platform_hooks.lock # NULL /\ g_platform_hooks.unlock # NULL) =>
        \A i \in 1..Len(calls) :
            calls[i] \in BufferMutations => LockDepth(calls, i) = 1

\* C10: every lock call of a record_* operation is followed by exactly one
\* unlock call before the operation returns, on every path (flush on full,
\* text fallback included), and the lock is never taken while already held.
C10_LockBalanced ==
    last_op \in RecordOps =>
        /\ \A n \in 0..Len(calls) : LockDepth(calls, n) \in {0, 1}
        /\ LockDepth(calls, Len(calls)) = 0
        /\ g_platform_hooks.lock # NULL => "lock" \in Range(calls)

C10_Witness ==
    /\ last_op \in RecordOps
    /\ "lock" \in Range(calls) /\ "unlock" \in Range(calls)
    /\ "reset" \in Range(calls)
    /\ flushed # <<>>
    /\ flushed[Len(flushed)].by = last_op
    /\ ~flushed[Len(flushed)].wrote_all
    /\ flushed[Len(flushed)].lines # <<>>

\* the output of a run: the records of all writes, then those still buffered
Output == WrittenRecords(writes) \o Buffered(State)

Occurrences(seq, r) == Cardinality({i \in 1..Len(seq) : seq[i] = r})

\* every call made has returned
Quiescent == \A t \in Threads : thr[t].pc = "idle"

\* initializations begun: at most one thread has gone through heap_inst_init
InitsBegun ==
    Cardinality({t \in Threads : thr[t].pc \in {"init_set", "init_port", "init_timestamp"}})
    + Cardinality({i \in 1..Len(created) : created[i].operation = HEAP_OP_INIT})

\* no explicit heap_inst_flush has drained or is draining the buffer
NoExplicitFlush ==
    /\ \A t \in Threads : thr[t].op # "heap_inst_flush"
    /\ \A i \in 1..Len(flushed) : flushed[i].by # "heap_inst_flush"

\* C11: with a lock/unlock pair registered, a heap_inst_flush that runs while
\* other threads call record_* loses and duplicates nothing: once every call
\* has returned, every record created is exactly once in the output (the
\* data of the writes followed by the buffer), and the output holds nothing
\* else.
C11_ConcurrentFlushKeepsRecords ==
    (g_platform_hooks.lock # NULL /\ g_platform_hooks.unlock # NULL
        /\ InitsBegun <= 1 /\ TransportAcceptsAll /\ Quiescent) =>
        /\ \A i \in 1..Len(created) : Occurrences(Output, created[i]) = 1
        /\ Len(Output) = Len(created)

\* C12: when the stream port's Init reports failure, heap_inst_init still
\* marks the tracer initialized and buffers the Init record; from then on no
\* flush calls the port's Write or Flush and every flush renders all the
\* records it drains as text; the port's Init is called once, by the
\* initializing call, and never again.
C12_FailedPortInitMeansText ==
    /\ []((tracker_initialized /\ ~streamport_available) =>
            /\ created # <<>> /\ created[1].operation = HEAP_OP_INIT
            /\ Output = created \/ flushed # <<>>
            /\ writes = <<>>
            /\ "Write" \notin Range(calls) /\ "Flush" \notin Range(calls)
            /\ \A i \in 1..Len(flushed) :
                   /\ ~flushed[i].wrote_all
                   /\ \A k \in 1..Len(flushed[i].recs) : LineDelivered(flushed[i], k))
    /\ [][/\ Occurrences(calls', "Init") <= 1
          /\ tracker_initialized => (tracker_initialized' /\ "Init" \notin Range(calls'))
          /\ (~tracker_initialized /\ tracker_initialized') => "Init" \in Range(calls')]_vars

\* C13: with a registered clock that returns 100, 101, 102, ... the hook is
\* read exactly once per record: after init and tracked operations of one
\* caller the i-th record created carries the i-th clock value, the clock
\* has been read as often as records were created, and the timestamps never
\* decrease from one record to the next.
C13_TimestampsAreClockValues ==
    g_platform_hooks.timestamp_us # NULL =>
        /\ clock = ClockStart + Len(created)
        /\ \A i \in 1..Len(created) : created[i].timestamp_us = ClockStart + i - 1
        /\ \A i \in 1..(Len(created) - 1) :
               created[i].timestamp_us <= created[i + 1].timestamp_us
        /\ last_op \in RecordOps =>
               Occurrences(calls, "timestamp_us") = Occurrences(calls, "append")

C13_Witness ==
    /\ g_platform_hooks.timestamp_us # NULL
    /\ last_op \in RecordOps
    /\ Len(created) = 3
    /\ created[1].operation = HEAP_OP_INIT
    /\ created[3].timestamp_us = ClockStart + 2

\* the context slot that goes with a callback slot
ContextOf(hooks, slot) ==
    CASE slot = "timestamp_us" -> hooks.timestamp_ctx
      [] slot = "log" -> hooks.log_ctx
      [] slot = "lock" -> hooks.lock_ctx
      [] OTHER -> hooks.unlock_ctx

\* the records the last operation built: its own, and the Init record when
\* it initialized the tracer
BuiltByLastOp ==
    IF last_op \in RecordOps \cup {"heap_inst_init"}
    THEN {created[i] : i \in (Len(created) - Occurrences(calls, "append") + 1)..Len(created)}
    ELSE {}

\* C14: a registration replaces all four callbacks and their contexts at
\* once: the active set is the set passed last; every hook call of the
\* operations that follow is made to the callback of that set with that
\* set's context; a slot the set leaves null is not called at all (the
\* callback registered before is gone); and after a registration of null the
\* new records carry timestamp 0 and lock/unlock are not called.
C14_RegistrationReplacesAll ==
    /\ g_platform_hooks = registered
    /\ \A i \in 1..Len(invoked) :
           /\ invoked[i].fn # NULL
           /\ invoked[i].fn = registered[invoked[i].slot]
           /\ invoked[i].ctx = ContextOf(registered, invoked[i].slot)
    /\ registered.timestamp_us = NULL => \A r \in BuiltByLastOp : r.timestamp_us = 0
    /\ registered = NoHooks =>
           /\ invoked = <<>>
           /\ "lock" \notin Range(calls) /\ "unlock" \notin Range(calls)

\* a full set was active (its log callback got a message), then the clock
\* alone was registered, and a malloc has been recorded since
C14_Witness ==
    /\ registered = ClockOnly(2)
    /\ last_op = "heap_inst_record_malloc"
    /\ \E i \in 1..Len(log_out) : log_out[i].sink = "hook"
    /\ \E i \in 1..Len(invoked) : invoked[i].slot = "timestamp_us" /\ invoked[i].fn = 2
    /\ \A i \in 1..Len(invoked) : invoked[i].slot = "timestamp_us"
    /\ log_out[Len(log_out)].sink = "stdout"

\* every a in seq comes before every b
AllBefore(seq, a, b) ==
    \A i, j \in 1..Len(seq) : (seq[i] = a /\ seq[j] = b) => i < j

\* the records the last wrapper call appended, in order, the Init record of
\* a lazy initialization included
AppendedByWrapper ==
    SubSeq(created, Len(created) - Occurrences(calls, "append") + 1, Len(created))

\* the records of AppendedByWrapper that are not the Init record
OwnRecords == SelectSeq(AppendedByWrapper, LAMBDA r : r.operation # HEAP_OP_INIT)

\* the value fits the 32-bit field that holds it
Fits(field, value) == value.hi = 0 => Word(0, field) = value

RECURSIVE Drained(_)
Drained(fs) ==
    IF fs = <<>> THEN <<>>
    ELSE Drained(SubSeq(fs, 1, Len(fs) - 1)) \o fs[Len(fs)].recs

\* the trace: what has been drained, then what the buffer holds
Trace == Drained(flushed) \o Buffered(State)

\* the Free records of address a among the first n records of seq
FreesBefore(seq, n, a) ==
    {seq[i] : i \in {k \in 1..n : seq[k].operation = HEAP_OP_FREE /\ seq[k].arg1 = a}}

\* C16 (concurrent callers): with a lock registered, wherever the trace has
\* the Malloc record of a hand-out of address A, the Free records of all
\* earlier releases of A come before it.
C16_FreeRecordBeforeReuse ==
    (g_platform_hooks.lock # NULL /\ g_platform_hooks.unlock # NULL) =>
        \A h \in handed_out : \A j \in 1..Len(Trace) :
            Trace[j] = h.record =>
                Cardinality(FreesBefore(Trace, j - 1, h.record.arg2)) >= h.frees

\* C17: heap_inst_record_realloc(old, size, result) appends exactly one
\* record, of kind Realloc, with arg1 = old address, arg2 = new size and
\* arg3 = result address (as 32-bit fields), whatever the shape of the
\* call: old = 0 gives arg1 = 0, size = 0 gives arg2 = 0.
C17_ReallocRecordShape ==
    last_op = "__wrap_realloc" =>
        /\ Len(OwnRecords) = 1
        /\ OwnRecords[1].operation = HEAP_OP_REALLOC
        /\ OwnRecords[1].arg1 = U32(wrapped.args[1])
        /\ OwnRecords[1].arg2 = U32(wrapped.args[2])
        /\ OwnRecords[1].arg3 = U32(wrapped.returned)
        /\ Fits(OwnRecords[1].arg1, wrapped.args[1])
        /\ Fits(OwnRecords[1].arg2, wrapped.args[2])
        /\ Fits(OwnRecords[1].arg3, wrapped.returned)
        /\ wrapped.args[1] = NULLPTR => OwnRecords[1].arg1 = 0
        /\ wrapped.args[2] = Word(0, 0) => OwnRecords[1].arg2 = 0
        /\ OwnRecords[1].padding = 0
        /\ OwnRecords[1].reserved = 0

\* the malloc-like shape realloc(NULL, 16) has been recorded after the
\* free-like shape realloc(p, 0)
C17_Witness ==
    /\ last_op = "__wrap_realloc"
    /\ wrapped.args = <<NULLPTR, Word(0, 16)>>
    /\ wrapped.returned = Word(0, 4096)
    /\ Len(created) >= 2
    /\ created[Len(created)].operation = HEAP_OP_REALLOC
    /\ created[Len(created)].arg1 = 0
    /\ created[Len(created)].arg2 = 16
    /\ created[Len(created)].arg3 = 4096
    /\ created[Len(created) - 1].operation = HEAP_OP_REALLOC
    /\ created[Len(created) - 1].arg1 = 4096
    /\ created[Len(created) - 1].arg2 = 0
    /\ created[Len(created) - 1].arg3 = 0

\* C18: heap_inst_record_malloc(size, addr) appends a Malloc record with
\* arg1 = size, arg2 = addr, arg3 = 0; heap_inst_record_free(addr) appends a
\* Free record with arg1 = addr (0 for a null free), arg2 = arg3 = 0; and
\* padding and reserved are zero in every record created, the Init record
\* included.
C18_MallocFreeRecordShape ==
    /\ last_op = "__wrap_malloc" =>
          /\ Len(OwnRecords) = 1
          /\ OwnRecords[1].operation = HEAP_OP_MALLOC
          /\ OwnRecords[1].arg1 = U32(wrapped.args[1])
          /\ Fits(OwnRecords[1].arg1, wrapped.args[1])
          /\ OwnRecords[1].arg2 = U32(wrapped.real[1].result)
          /\ Fits(OwnRecords[1].arg2, wrapped.real[1].result)
          /\ OwnRecords[1].arg3 = 0
    /\ last_op = "__wrap_free" =>
          /\ Len(OwnRecords) = 1
          /\ OwnRecords[1].operation = HEAP_OP_FREE
          /\ OwnRecords[1].arg1 = U32(wrapped.args[1])
          /\ Fits(OwnRecords[1].arg1, wrapped.args[1])
          /\ wrapped.args[1] = NULLPTR => OwnRecords[1].arg1 = 0
          /\ OwnRecords[1].arg2 = 0
          /\ OwnRecords[1].arg3 = 0
    /\ \A i \in 1..Len(created) : created[i].padding = 0 /\ created[i].reserved = 0

\* a null free has been recorded after a malloc
C18_Witness ==
    /\ last_op = "__wrap_free"
    /\ wrapped.args = <<NULLPTR>>
    /\ Len(created) >= 3
    /\ created[1].operation = HEAP_OP_INIT
    /\ created[Len(created)].operation = HEAP_OP_FREE
    /\ created[Len(created)].arg1 = 0
    /\ created[Len(created) - 1].operation = HEAP_OP_MALLOC
    /\ created[Len(created) - 1].arg1 = 16
    /\ created[Len(created) - 1].arg2 = 4096

\* the hint is a struct with a non-null start and a size greater than 0
UsableHint(heap_info) ==
    ~heap_info.null /\ heap_info.heap_start # NULLPTR /\ heap_info.heap_size # Word(0, 0)

\* C19: the Init record that heap_inst_init(hint) appends has arg1 = start,
\* arg2 = size and flag bit 0 of arg3 set exactly when the hint is given
\* with a non-null start and a size greater than 0; with no hint or a
\* degenerate hint, and with the lazy initialization of a record function,
\* on a build without link-time symbols it has arg1 = arg2 = arg3 = 0.
C19_InitBoundsFromHint ==
    /\ HEAP_AUTO_DETECT_AVAILABLE = 0
    /\ (last_op = "heap_inst_init" /\ Occurrences(calls, "append") = 1) =>
          /\ created[Len(created)].operation = HEAP_OP_INIT
          /\ IF UsableHint(wrapped.args[1])
             THEN /\ created[Len(created)].arg1 = U32(wrapped.args[1].heap_start)
                  /\ Fits(created[Len(created)].arg1, wrapped.args[1].heap_start)
                  /\ created[Len(created)].arg2 = U32(wrapped.args[1].heap_size)
                  /\ Fits(created[Len(created)].arg2, wrapped.args[1].heap_size)
                  /\ created[Len(created)].arg3 % 2 = 1
             ELSE /\ created[Len(created)].arg1 = 0
                  /\ created[Len(created)].arg2 = 0
                  /\ created[Len(created)].arg3 = 0
    /\ (last_op \in RecordOps /\ Occurrences(calls, "append") = 2) =>
          /\ created[Len(created) - 1].operation = HEAP_OP_INIT
          /\ created[Len(created) - 1].arg1 = 0
          /\ created[Len(created) - 1].arg2 = 0
          /\ created[Len(created) - 1].arg3 = 0

\* heap_inst_init has been called with the hint (8192, 1024)
C19_Witness ==
    /\ last_op = "heap_inst_init"
    /\ wrapped.args = <<HeapInfo(HintStart, HintSize)>>
    /\ Len(created) = 1
    /\ created[1].operation = HEAP_OP_INIT
    /\ created[1].arg1 = 8192
    /\ created[1].arg2 = 1024
    /\ created[1].arg3 = HEAP_INIT_FLAG_HEAP_INFO_VALID

\* C20: heap_inst_flush on an uninitialized tracker, or on an initialized
\* tracker whose buffer is empty, does nothing, however often it is called:
\* it calls neither the stream port nor a hook, writes no log line, does not
\* initialize, and leaves the flag, the count, the buffer and the port
\* state as they are.
C20_IdleFlushIsNoOp ==
    [][(last_op' = "heap_inst_flush" /\ (~tracker_initialized \/ buffer_index = 0)) =>
          /\ calls' = <<>>
          /\ invoked' = <<>>
          /\ writes' = writes
          /\ log_out' = log_out
          /\ flushed' = flushed
          /\ created' = created
          /\ tracker_initialized' = tracker_initialized
          /\ streamport_available' = streamport_available
          /\ buffer_index' = buffer_index
          /\ heap_buffer' = heap_buffer
          /\ clock' = clock]_vars

\* a flush has found the buffer already drained by an earlier flush
C20_Witness ==
    /\ last_op = "heap_inst_flush"
    /\ calls = <<>>
    /\ tracker_initialized
    /\ buffer_index = 0
    /\ Len(flushed) = 1
    /\ flushed[1].by = "heap_inst_flush"

\* the records the stream port has taken in full, in the order of the writes
Captured == WrittenRecords(SelectSeq(writes, LAMBDA wr : wr.ret = wr.len))

\* init, exactly capacity tracked mallocs and a final flush have been made
FullBufferRunDone ==
    /\ last_op = "heap_inst_flush"
    /\ Len(created) = heap_inst_get_buffer_capacity + 1
    /\ NumRecordCalls = heap_inst_get_buffer_capacity
    /\ buffer_index = 0

\* C21: with the test stream port in its default mode, after init, exactly
\* capacity tracked mallocs and a final flush, the captured bytes are the
\* capacity + 1 records of the run.
C21_TestPortCapturesWholeRun ==
    FullBufferRunDone =>
        /\ AcceptedBytes(writes) =
              (heap_inst_get_buffer_capacity + 1) * sizeof_heap_inst_record_t
        /\ Captured = created

Last(seq) == seq[Len(seq)]

\* C22: a flush counts the write as successful only when the value returned
\* is non-negative and equals count * record size; after a negative or short
\* return (and when the port is unavailable) every buffered record is
\* rendered as text; in every case the count is 0 when the flush is over,
\* and a record_* call is buffered normally afterwards.
C22_WriteSuccessIsExact ==
    /\ [][Len(flushed') = Len(flushed) + 1 =>
            /\ Last(flushed').recs = Buffered(State)
            /\ IF streamport_available
               THEN /\ Len(writes') = Len(writes) + 1
                    /\ Last(writes').len = buffer_index * sizeof_heap_inst_record_t
                    /\ Last(flushed').wrote_all <=>
                          (Last(writes').ret >= 0 /\ Last(writes').ret = Last(writes').len)
               ELSE writes' = writes /\ ~Last(flushed').wrote_all
            /\ ~Last(flushed').wrote_all =>
                  \A k \in 1..Len(Last(flushed').recs) : LineDelivered(Last(flushed'), k)
            /\ buffer_index' = IF last_op' \in RecordOps THEN 1 ELSE 0]_vars
    /\ [][last_op' \in RecordOps =>
            /\ buffer_index' \in 1..heap_inst_get_buffer_capacity
            /\ heap_buffer'[buffer_index' - 1] = Last(created')
            /\ Len(created') > Len(created)]_vars

\* the records of one Write call that lie whole in the bytes the port took
WholeRecordsTaken(wr) == SubSeq(wr.data, 1, Accepted(wr) \div sizeof_heap_inst_record_t)

\* the records of all flushes that went to the text fallback
TextRendered == UNION {Range(flushed[i].recs) : i \in {j \in 1..Len(flushed) : ~flushed[j].wrote_all}}

\* C23: whatever the stream port returns (full, short or failed writes), the
\* bytes it has accepted are at every moment a whole number of records, and
\* no record lies in the byte stream and in a text fallback as well.
C23_StreamIsWholeRecords ==
    /\ AcceptedBytes(writes) % sizeof_heap_inst_record_t = 0
    /\ \A i \in 1..Len(writes) : Range(WholeRecordsTaken(writes[i])) \cap TextRendered = {}

\* C24: heapInstStreamPort_Flush is called only after a Write that succeeded
\* in full: an operation whose Write was short or failed makes no Flush call.
C24_PortFlushOnlyAfterFullWrite ==
    "Flush" \in Range(calls) =>
        /\ "Write" \in Range(calls)
        /\ AllBefore(calls, "Write", "Flush")
        /\ writes # <<>>
        /\ Last(writes).ret = Last(writes).len

\* frame 2 is inside log_heap_operation's flush-on-full
NestedFlush ==
    thr[2].pc \in {"fbt_count", "fbt_write", "fbt_reset"} /\ thr[2].flush_ret = "store"

\* C25: a tracked call that the stream port's Write makes during a
\* flush-on-full does not call the lock hook while the outer call holds the
\* lock and does not start a flush of the same full buffer again, so the
\* outer call can return.
C25_NestedCallReturns ==
    (thr[1].pc = "fbt_write" /\ thr[1].flush_ret = "store") =>
        /\ ~(thr[2].pc = "lock" /\ g_platform_hooks.lock # NULL /\ mutex = 1)
        /\ ~NestedFlush

\* C26: a tracked operation that finds tracker_initialized set is recorded
\* after the Init record: the Init record is the first record of the trace
\* at every moment at which the trace holds a record.
C26_InitRecordStaysFirst ==
    Trace # <<>> => Trace[1].operation = HEAP_OP_INIT

\* every record created is in the trace exactly once
EveryRecordOnce ==
    /\ \A i \in 1..Len(created) : Occurrences(Trace, created[i]) = 1
    /\ Len(Trace) = Len(created)

\* C27: with a lock/unlock pair registered, threads that make their first
\* tracked calls concurrently on an uninitialized tracer initialize it once
\* (one pass through heap_inst_init, one Init record), and once the calls
\* have returned the Init record is the first record of the trace and
\* every record is in the trace exactly once.
C27_ConcurrentFirstCallsInitOnce ==
    (g_platform_hooks.lock # NULL /\ g_platform_hooks.unlock # NULL /\ NoExplicitFlush) =>
        /\ InitsBegun <= 1
        /\ Quiescent /\ created # <<>> =>
              /\ Trace # <<>>
              /\ Trace[1].operation = HEAP_OP_INIT
              /\ EveryRecordOnce

\* the records of thread t that are in the trace are there in the order in
\* which t built them
InCallOrder(t) ==
    \A i, j \in 1..Len(thr[t].mine) : \A p, q \in 1..Len(Trace) :
        (i < j /\ Trace[p] = thr[t].mine[i] /\ Trace[q] = thr[t].mine[j]) => p < q

C29_RegistrationKeepsLockPaired ==
    Quiescent => mutex = 0

\* record r hands out address a / releases address a
HandsOut(r, a) ==
    \/ r.operation = HEAP_OP_MALLOC /\ r.arg2 = a
    \/ r.operation = HEAP_OP_REALLOC /\ r.arg3 = a

Releases(r, a) ==
    \/ r.operation = HEAP_OP_FREE /\ r.arg1 = a
    \/ r.operation = HEAP_OP_REALLOC /\ r.arg1 = a

\* C30: with a lock registered and the threads calling the wrapped malloc,
\* realloc and free, once the calls have returned the trace has, between
\* any two records that hand out the same address, a record that releases
\* it.
C30_ReleaseBetweenHandOuts ==
    (g_platform_hooks.lock # NULL /\ g_platform_hooks.unlock # NULL
        /\ InitsBegun <= 1 /\ NoExplicitFlush /\ Quiescent) =>
        \A a \in {U32(x) : x \in Addrs} : \A p, q \in 1..Len(Trace) :
            (p < q /\ HandsOut(Trace[p], a) /\ HandsOut(Trace[q], a)) =>
                \E r \in (p + 1)..q : Releases(Trace[r], a)

\* C31: with a lock registered, a clock that only goes up and the threads
\* calling the record functions, once the calls have returned the records
\* lie in the trace in non-decreasing timestamp order.
C31_StoredInTimestampOrder ==
    (g_platform_hooks.lock # NULL /\ g_platform_hooks.unlock # NULL
        /\ g_platform_hooks.timestamp_us # NULL
        /\ InitsBegun <= 1 /\ NoExplicitFlush /\ Quiescent) =>
        \A p, q \in 1..Len(Trace) :
            p < q => Trace[p].timestamp_us <= Trace[q].timestamp_us

\* the messages a text line is made of after its prefix: the fields of the
\* record's operation kind and the line end
LineTail(rec) ==
    (CASE rec.operation = HEAP_OP_INIT ->
             << <<",HEAP_BASE:0x%x,HEAP_SIZE:%u,FLAGS:0x%x", rec.arg1, rec.arg2, rec.arg3>> >>
       [] rec.operation = HEAP_OP_MALLOC ->
             << <<",SIZE:%u,PTR:0x%x", rec.arg1, rec.arg2>> >>
       [] rec.operation = HEAP_OP_FREE ->
             << <<",PTR:0x%x", rec.arg1>> >>
       [] rec.operation = HEAP_OP_REALLOC ->
             << <<",OLD_PTR:0x%x,SIZE:%u,NEW_PTR:0x%x", rec.arg1, rec.arg2, rec.arg3>> >>
       [] OTHER -> <<>>)
    \o << <<"\n">> >>

\* the text of records recs[from..]: one line each, the index from 0
RECURSIVE TextOf(_, _)
TextOf(recs, from) ==
    IF from > Len(recs) THEN <<>>
    ELSE << <<"RECORD:%zu,OP:%u,TIME:%llu", from - 1, recs[from].operation,
              recs[from].timestamp_us>> >>
         \o LineTail(recs[from]) \o TextOf(recs, from + 1)

\* the messages lines, from their START marker on, are the START marker, the
\* text of recs and the END marker
IsTextTrace(lines, recs) ==
    \E k \in 1..Len(lines) :
        /\ \A i \in 1..(k - 1) : lines[i].msg # <<"--- HEAP_TRACE_START ---\n">>
        /\ [i \in 1..(Len(lines) - k + 1) |-> lines[k + i - 1].msg] =
              << <<"--- HEAP_TRACE_START ---\n">> >> \o TextOf(recs, 1)
              \o << <<"--- HEAP_TRACE_END ---\n">> >>

\* the buffer of the current state with the operation of its first record
\* replaced by a value outside the enumeration
WithUnknownOp(op) == [State EXCEPT !.heap_buffer[0].operation = op]

\* C32: every drain that falls back to text emits the START line, one
\* RECORD line per drained record in buffer order with the index from 0
\* and the fields of the record's kind, and the END line; a buffer holding
\* a record of unknown kind is rendered the same way, its line without
\* fields.
C32_TextFallbackShape ==
    /\ \A i \in 1..Len(flushed) :
          ~flushed[i].wrote_all => IsTextTrace(flushed[i].lines, flushed[i].recs)
    /\ buffer_index \in 1..heap_inst_get_buffer_capacity =>
          \A op \in {4, 255} :
              IsTextTrace(SubSeq(TextFallback(WithUnknownOp(op)).log_out,
                                 Len(log_out) + 1,
                                 Len(TextFallback(WithUnknownOp(op)).log_out)),
                          Buffered(WithUnknownOp(op)))

\* the product nmemb * size of the last calloc call fits a size_t
TotalFitsSizeT ==
    \A k \in 5..8 : Product(wrapped.args[1], wrapped.args[2])[k] = 0

\* C33: for every pair (nmemb, size) the wrapped calloc calls the real
\* calloc once and appends one record, of kind Malloc, whose size field is
\* the total byte count nmemb * size (the count itself whenever it fits
\* the 32-bit field, and never the count of a smaller request) and whose
\* address field is the result.
C33_CallocRecordsTotalSize ==
    last_op = "__wrap_calloc" =>
        /\ Len(wrapped.real) = 1
        /\ wrapped.real[1].fn = "__real_calloc"
        /\ wrapped.real[1].args = wrapped.args
        /\ wrapped.returned = wrapped.real[1].result
        /\ Len(OwnRecords) = 1
        /\ OwnRecords[1].operation = HEAP_OP_MALLOC
        /\ OwnRecords[1].arg2 = U32(wrapped.returned)
        /\ OwnRecords[1].arg3 = 0
        /\ TotalFitsSizeT
        /\ OwnRecords[1].arg1 = U32(size_mul(wrapped.args[1], wrapped.args[2]))
        /\ Fits(OwnRecords[1].arg1, size_mul(wrapped.args[1], wrapped.args[2]))

\* C34: an Init record whose flag bit 0 (heap bounds valid) is set has a
\* non-zero heap base in arg1 and a non-zero heap size in arg2, whatever
\* hint heap_inst_init was given.
C34_ValidFlagMeansBounds ==
    \A i \in 1..Len(created) :
        (created[i].operation = HEAP_OP_INIT /\ created[i].arg3 % 2 = 1) =>
            created[i].arg1 # 0 /\ created[i].arg2 # 0

\* C35: in the default configuration the record is 24 bytes (every write
\* hands the transport 24 bytes per buffered record), the record size
\* divides the 4096-byte budget with no remainder, and the capacity is the
\* budget divided by the record size.
C35_RecordDividesBudget ==
    /\ \A i \in 1..Len(writes) : writes[i].len = 24 * Len(writes[i].data)
    /\ sizeof_heap_inst_record_t = 24
    /\ HEAPINST_CFG_BUFFER_SIZE % sizeof_heap_inst_record_t = 0
    /\ heap_inst_get_buffer_capacity * sizeof_heap_inst_record_t = HEAP_INST_BUFFER_SIZE

\* the last function was entered after semihosting_init had found no
\* debugger (or a later request had faulted)
EnteredUnavailable == semihosting.was.initialized /\ ~semihosting.was.available

\* the last function executed no BKPT
NoRequestMade == Len(semihosting.requests) = semihosting.asked

\* C36: once semihosting_init has run, availability never goes from false
\* to true; no BKPT is executed while it is false; a call of
\* semihosting_open/write/close/read made then returns a negative code
\* without a request; and the stream port's Init made then returns -1,
\* makes no request and leaves the trace handle as it was, not open.
C36_UnavailableStaysUnavailable ==
    /\ [][(semihosting.initialized /\ ~semihosting.available) =>
             (semihosting'.initialized /\ ~semihosting'.available)]_vars
    /\ [](\A i \in 1..Len(semihosting.requests) :
             semihosting.requests[i].initialized => semihosting.requests[i].available)
    /\ []((EnteredUnavailable /\ semihosting.op = "semihosting_call") =>
             (semihosting.ret < 0 /\ NoRequestMade))
    /\ []((EnteredUnavailable /\ semihosting.op = "heapInstStreamPort_Init") =>
             (semihosting.ret = -1 /\ NoRequestMade))
    /\ [][(semihosting.initialized /\ ~semihosting.available
            /\ semihosting'.op = "heapInstStreamPort_Init"
            /\ semihosting'.requests = semihosting.requests
            /\ semihosting'.attached = semihosting.attached) =>
             semihosting'.g_trace_handle = semihosting.g_trace_handle]_vars

\* semihosting_init ran without a debugger, a debugger was attached later,
\* and a call made after that was refused without a request
C36_Witness ==
    /\ semihosting.attached
    /\ EnteredUnavailable
    /\ semihosting.op = "semihosting_call"
    /\ semihosting.ret = SEMIHOSTING_ERROR_NO_DEBUGGER
    /\ Len(semihosting.requests) = 1
    /\ semihosting.requests[1].reason = SYS_TIME

\* C37: Write returns -1 whenever no file is open, and with a file open it
\* returns len or -1; Init returns 0 exactly when a file is open after it,
\* and with a file already open it makes no fopen call and keeps the file.
C37_FilePortReportsFailure ==
    /\ [](fileport.op = "heapInstStreamPort_Write" =>
             IF fileport.was_open
             THEN fileport.ret = fileport.len \/ fileport.ret = -1
             ELSE fileport.ret = -1)
    /\ [](fileport.op = "heapInstStreamPort_Init" =>
             (fileport.ret = 0 <=> fileport.g_trace_file # NULL))
    /\ [][(fileport'.op = "heapInstStreamPort_Init" /\ fileport.g_trace_file # NULL) =>
             (fileport'.fopens = fileport.fopens
              /\ fileport'.g_trace_file = fileport.g_trace_file)]_vars
    /\ [][(fileport'.op = "heapInstStreamPort_Write" /\ fileport'.ret >= 0) =>
             fileport'.written = fileport.written + fileport'.len]_vars

\* a file was opened, written to and closed, a second fopen failed, and
\* the write after that was refused
C37_Witness ==
    /\ fileport.op = "heapInstStreamPort_Write"
    /\ fileport.len = sizeof_heap_inst_record_t
    /\ fileport.ret = -1
    /\ ~fileport.was_open
    /\ fileport.fopens = 2

\* C38: in heap_tracker.c every drain of the buffer made with no trace
\* file open (the handle semihosting_open returned is negative) puts the
\* drained records on the console between the START and END markers, and
\* no drain drops records that went neither to the console nor, by a
\* write request, to the debugger.
C38_TrackerNeverDropsRecords ==
    \A i \in 1..Len(heap_tracker.drains) :
        /\ heap_tracker.drains[i].handle < 0 => heap_tracker.drains[i].text
        /\ heap_tracker.drains[i].text \/ heap_tracker.drains[i].served

====
